---- MODULE Spec2Model ----
(***************************************************************************)
(* Model of the host-side driver for the TI CC13xx/CC26xx ROM serial       *)
(* bootloader: the wire codec (bootloader/commands.rs), the bootloader     *)
(* sequencer (bootloader/mod.rs) and the device facade (lib.rs).           *)
(*                                                                         *)
(* Spec       the sequencer and the facade, one SPI/GPIO exchange per step *)
(* SpecCodec  the pure functions of the wire codec, applied to inputs      *)
(*            drawn from bounded sets                                      *)
(***************************************************************************)
EXTENDS Integers, Sequences, FiniteSets, TLC

VARIABLES
    pc,        \* position of the running call ("idle" when none runs)
    call,      \* the running call: operation, firmware image, RAM mask
    idx,       \* index of the segment the for-loop is at
    data,      \* write_segment: the bytes not yet sent
    stack,     \* where get_status / get_crc / system_reset return to
    local,     \* locals: chip_id, status, crc, the value to return
    bus,       \* SPI transfers issued by the running call, in order
    gpio,      \* level and direction of the reset and bootloader_en lines
    result,    \* what the call returned: Ok(v), Err(e) or a panic
    ncalls,    \* number of calls started
    rx,        \* what the last SPI transfer captured, or its I/O failure
    reported,  \* CRCs the device reported to get_crc: <<segment index, crc>>
    codec      \* SpecCodec: the last pure codec call, its input and output

vars == <<pc, call, idx, data, stack, local, bus, gpio, result, ncalls, rx, reported,
          codec>>

(***************************************************************************)
(* Bounds                                                                  *)
(***************************************************************************)
MaxCalls == 2          \* calls made one after the other
MaxBufLen == 4         \* length of the captured buffers given to check_ack
MaxDataLen == 254      \* longest byte vector handed to SendData

(***************************************************************************)
(* Results: Rust's Result<T, E>, plus the panic (abort) outcome            *)
(***************************************************************************)
Ok(v) == [kind |-> "Ok", val |-> v, err |-> "none"]
Err(e) == [kind |-> "Err", val |-> <<>>, err |-> e]
Panic(m) == [kind |-> "Panic", val |-> <<>>, err |-> m]
NoResult == [kind |-> "None", val |-> <<>>, err |-> "none"]

(***************************************************************************)
(* Bytes                                                                   *)
(***************************************************************************)
\* s[lo] + ... + s[hi], by halves
RECURSIVE SumRange(_, _, _)
SumRange(s, lo, hi) ==
    IF lo > hi THEN 0
    ELSE IF lo = hi THEN s[lo]
    ELSE LET mid == (lo + hi) \div 2
         IN  SumRange(s, lo, mid) + SumRange(s, mid + 1, hi)

Sum(s) == SumRange(s, 1, Len(s))

Zeros(n) == [i \in 1..n |-> 0]

\* Vec::resize(n, 0): truncates, or pads with zeros
Resize(s, n) == IF n <= Len(s) THEN SubSeq(s, 1, n) ELSE s \o Zeros(n - Len(s))

\* WriteBytesExt::write_u32::<BigEndian> / write_u16::<BigEndian>
\* the bytes in little-endian order
LittleEndian32(u) ==
    << u % 256, (u \div 256) % 256, (u \div 65536) % 256, (u \div 16777216) % 256 >>

BigEndian32(u) ==
    << (u \div 16777216) % 256, (u \div 65536) % 256, (u \div 256) % 256, u % 256 >>
BigEndian16(u) == << (u \div 256) % 256, u % 256 >>

(***************************************************************************)
(* commands.rs: check_ack                                                  *)
(***************************************************************************)
ACK_BYTE == 204     \* 0xCC
NACK_BYTE == 51     \* 0x33

\* The loop of check_ack from cursor position pos (bytes already read).
\* Ok carries the cursor position after the ACK byte.
RECURSIVE AckScan(_, _)
AckScan(buf, pos) ==
    IF pos >= Len(buf) THEN Err("NoAck")
    ELSE IF buf[pos + 1] = ACK_BYTE THEN Ok(pos + 1)
    ELSE IF buf[pos + 1] = NACK_BYTE THEN Err("Nack")
    ELSE AckScan(buf, pos + 1)

\* a scan that looks for the ACK byte only
RECURSIVE AckOnlyScan(_, _)
AckOnlyScan(buf, pos) ==
    IF pos >= Len(buf) THEN Err("NoAck")
    ELSE IF buf[pos + 1] = ACK_BYTE THEN Ok(pos + 1)
    ELSE AckOnlyScan(buf, pos + 1)

check_ack_AckOnly(from_bus) == AckOnlyScan(from_bus, 0)

check_ack(from_bus) == AckScan(from_bus, 0)

(***************************************************************************)
(* commands.rs: the command! definitions                                   *)
(***************************************************************************)
BASE_PACKET_SIZE == 3

CommandDefs ==
    [ Ping          |-> [CMD |-> 32, NULL_BYTES |-> 36,  MIN_LEN |-> 3,  MAX_LEN |-> 3,
                         types |-> <<>>],
      Download      |-> [CMD |-> 33, NULL_BYTES |-> 24,  MIN_LEN |-> 11, MAX_LEN |-> 11,
                         types |-> <<"Big", "Big">>],
      GetStatus     |-> [CMD |-> 35, NULL_BYTES |-> 32,  MIN_LEN |-> 3,  MAX_LEN |-> 3,
                         types |-> <<>>],
      SendData      |-> [CMD |-> 36, NULL_BYTES |-> 0,   MIN_LEN |-> 4,  MAX_LEN |-> 255,
                         types |-> <<"Vector">>],
      Reset         |-> [CMD |-> 37, NULL_BYTES |-> 32,  MIN_LEN |-> 3,  MAX_LEN |-> 3,
                         types |-> <<>>],
      SectorErase   |-> [CMD |-> 38, NULL_BYTES |-> 0,   MIN_LEN |-> 7,  MAX_LEN |-> 7,
                         types |-> <<"Big">>],
      Crc32         |-> [CMD |-> 39, NULL_BYTES |-> 0,   MIN_LEN |-> 15, MAX_LEN |-> 15,
                         types |-> <<"Big", "Big", "Big">>],
      ChipId        |-> [CMD |-> 32, NULL_BYTES |-> 0,   MIN_LEN |-> 7,  MAX_LEN |-> 7,
                         types |-> <<"Big">>],
      GetChipId     |-> [CMD |-> 40, NULL_BYTES |-> 42,  MIN_LEN |-> 3,  MAX_LEN |-> 3,
                         types |-> <<>>],
      MemoryRead    |-> [CMD |-> 42, NULL_BYTES |-> 272, MIN_LEN |-> 9,  MAX_LEN |-> 9,
                         types |-> <<"Big", "Sma", "Sma">>],
      MemoryWrite   |-> [CMD |-> 43, NULL_BYTES |-> 50,  MIN_LEN |-> 9,  MAX_LEN |-> 255,
                         types |-> <<"Big", "Big">>],
      BankErase     |-> [CMD |-> 44, NULL_BYTES |-> 0,   MIN_LEN |-> 3,  MAX_LEN |-> 3,
                         types |-> <<>>],
      Crc32Response |-> [CMD |-> 0,  NULL_BYTES |-> 0,   MIN_LEN |-> 7,  MAX_LEN |-> 7,
                         types |-> <<"Big">>],
      CommandStatus |-> [CMD |-> 0,  NULL_BYTES |-> 0,   MIN_LEN |-> 4,  MAX_LEN |-> 4,
                         types |-> <<"StatusValue">>] ]

CommandNames == DOMAIN CommandDefs

\* A command value: the variant and its field values in declared order.
Cmd(name, fields) == [name |-> name, fields |-> fields]

\* enum StatusValue and its discriminants
StatusValue ==
    [ Default |-> 0, Success |-> 64, UnknownCmd |-> 65, InvalidCmd |-> 66,
      InvalidAddr |-> 67, FlashFail |-> 68 ]

(***************************************************************************)
(* commands.rs: serializer, CommandDef::into_payload, Command::serialize   *)
(***************************************************************************)
\* serializer(vec, input) for one field of type t and value v.
\* A StatusValue field hits assert!(false, "Status is never seralized").
serializer(vec, t, v) ==
    CASE t = "Sma" -> Ok(Append(vec, v))
      [] t = "Med" -> Ok(vec \o BigEndian16(v))
      [] t = "Big" -> Ok(vec \o BigEndian32(v))
      [] t = "Vector" -> Ok(vec \o v)
      [] OTHER -> Panic("Status is never seralized")

\* $(serializer(&mut payload, &self.$arg_name.into())?;)* over fields i..n
RECURSIVE SerializeFields(_, _, _, _)
SerializeFields(vec, types, fields, i) ==
    IF i > Len(types) THEN Ok(vec)
    ELSE LET r == serializer(vec, types[i], fields[i])
         IN  IF r.kind = "Ok" THEN SerializeFields(r.val, types, fields, i + 1)
             ELSE r

\* the upper bound off by one
PayloadBoundOffByOne(len, min_len, max_len) ==
    IF len + 3 < min_len THEN "MinPayloadNotMet"
    ELSE IF len + 3 >= max_len THEN "MaxPayloadExceeded"
    ELSE "none"

\* The length check of into_payload.
PayloadBound(len, min_len, max_len) ==
    IF len + 3 < min_len THEN "MinPayloadNotMet"
    ELSE IF len + 3 > max_len THEN "MaxPayloadExceeded"
    ELSE "none"

\* Ok carries the payload; the empty payload stands for None.
into_payload(cmd) ==
    LET def == CommandDefs[cmd.name]
        r == SerializeFields(<<>>, def.types, cmd.fields, 1)
    IN  IF r.kind # "Ok" THEN r
        ELSE LET bound == PayloadBound(Len(r.val), def.MIN_LEN, def.MAX_LEN)
             IN  IF bound # "none" THEN Err(bound) ELSE Ok(r.val)

\* The u8 checksum loop: checksum = ((checksum as usize) + (*i as usize)) as u8
\* for each byte: truncating to 8 bits after every addition gives the sum
\* truncated once
Checksum(acc, payload) == (acc + Sum(payload)) % 256

\* the packet without its trailing idle bytes
serialize_NoIdle(cmd) ==
    LET def == CommandDefs[cmd.name]
        p == into_payload(cmd)
    IN  IF p.kind # "Ok" THEN p
        ELSE Ok(<<(BASE_PACKET_SIZE + Len(p.val)) % 256, Checksum(def.CMD, p.val),
                  def.CMD>> \o p.val)

serialize(cmd) ==
    LET def == CommandDefs[cmd.name]
        p == into_payload(cmd)
    IN  IF p.kind # "Ok" THEN p
        ELSE LET payload == p.val
                 checksum == Checksum(def.CMD, payload)
                 \* size += payload.len() as u8, in u8 arithmetic
                 size == (BASE_PACKET_SIZE + (Len(payload) % 256)) % 256
                 output == <<size, checksum, def.CMD>> \o payload
             IN  Ok(Resize(output, size + def.NULL_BYTES))

(***************************************************************************)
(* commands.rs: Command::read_header, deserializer, from_payload           *)
(***************************************************************************)
BYTES_NIBBLED == 2

\* the bounds taken on MIN_LEN and MAX_LEN themselves
ReplyBoundOffByOne(length, min_len, max_len) ==
    IF length < min_len THEN Err("MinPayloadNotMet")
    ELSE IF length > max_len THEN Err("MaxPayloadExceeded")
    ELSE Ok(length)

\* commands.rs 109-113: the bounds on the length byte of a reply, which
\* counts itself and the checksum but no command byte
ReplyBound(length, min_len, max_len) ==
    IF length < min_len - 1 THEN Err("MinPayloadNotMet")
    ELSE IF length > max_len - 1 THEN Err("MaxPayloadExceeded")
    ELSE Ok(length)

\* Ok carries the payload and nothing else: the cursor is dropped.
read_header(from_bus, name) ==
    LET def == CommandDefs[name]
        a == check_ack(from_bus)
    IN  IF a.kind # "Ok" THEN a
        ELSE LET pos == a.val
             IN  \* rdr.read_u8()? twice: length, then checksum
                 IF Len(from_bus) < pos + 2 THEN Err("IO_UnexpectedEof")
                 ELSE LET length == from_bus[pos + 1]
                          checksum == from_bus[pos + 2]
                          avail == Len(from_bus) - (pos + 2)
                          bound == ReplyBound(length, def.MIN_LEN, def.MAX_LEN)
                      IN  IF bound.kind # "Ok" THEN bound
                          ELSE IF length < BYTES_NIBBLED
                               THEN Panic("attempt to subtract with overflow")
                          ELSE IF avail < length - BYTES_NIBBLED
                               THEN Err("PacketTooShort")
                          ELSE LET payload == SubSeq(from_bus, pos + 3, pos + length)
                               IN  IF Checksum(0, payload) # checksum
                                   THEN Err("BadChecksum")
                                   ELSE Ok(payload)

\* a byte that is no discriminant taken for the default variant
StatusFromU8Coerced(b) ==
    LET names == {n \in DOMAIN StatusValue : StatusValue[n] = b}
    IN  IF names = {} THEN "Default" ELSE CHOOSE n \in names : TRUE

\* StatusValue::from_u8: the variant with that discriminant, if any
StatusFromU8(b) ==
    LET names == {n \in DOMAIN StatusValue : StatusValue[n] = b}
    IN  IF names = {} THEN "None" ELSE CHOOSE n \in names : TRUE

\* the two middle bytes read in each other's place
ReadMixedEndian32(payload, pos) ==
    ((payload[pos + 1] * 256 + payload[pos + 3]) * 256
        + payload[pos + 2]) * 256 + payload[pos + 4]

\* rdr.read_u32::<BigEndian>()
ReadBigEndian32(payload, pos) ==
    ((payload[pos + 1] * 256 + payload[pos + 2]) * 256
        + payload[pos + 3]) * 256 + payload[pos + 4]

\* deserializer(rdr, input, count) for a field of type t, the cursor at pos
\* of payload. Ok carries <<value, new cursor position>>.
deserializer(payload, pos, t, count) ==
    LET left == Len(payload) - pos
    IN  CASE t = "Sma" ->
               IF left < 1 THEN Err("IO_UnexpectedEof")
               ELSE Ok(<<payload[pos + 1], pos + 1>>)
          [] t = "Med" ->
               IF left < 2 THEN Err("IO_UnexpectedEof")
               ELSE Ok(<<payload[pos + 1] * 256 + payload[pos + 2], pos + 2>>)
          [] t = "Big" ->
               IF left < 4 THEN Err("IO_UnexpectedEof")
               ELSE Ok(<<ReadBigEndian32(payload, pos), pos + 4>>)
          [] t = "Vector" ->
               IF left < count THEN Err("IO_UnexpectedEof")
               ELSE Ok(<<SubSeq(payload, pos + 1, pos + count), pos + count>>)
          [] OTHER ->
               IF left < 1 THEN Err("IO_UnexpectedEof")
               ELSE LET s == StatusFromU8(payload[pos + 1])
                    IN  IF s = "None" THEN Err("InvalidStatusCode")
                        ELSE Ok(<<s, pos + 1>>)

RECURSIVE DeserializeFields(_, _, _, _, _)
DeserializeFields(payload, pos, types, i, acc) ==
    IF i > Len(types) THEN Ok(acc)
    ELSE LET r == deserializer(payload, pos, types[i], Len(payload) - pos)
         IN  IF r.kind # "Ok" THEN r
             ELSE DeserializeFields(payload, r.val[2], types, i + 1,
                                    Append(acc, r.val[1]))

\* Ok carries the field values in declared order.
from_payload(from_bus, name) ==
    LET h == read_header(from_bus, name)
    IN  IF h.kind # "Ok" THEN h
        ELSE DeserializeFields(h.val, 0, CommandDefs[name].types, 1, <<>>)

(***************************************************************************)
(* firmware_image.rs: Segment, FirmwareImage; the inputs of the sequencer  *)
(***************************************************************************)
Segment(start, d, crc) == [start |-> start, data |-> d, crc |-> crc]

SRAM_START == 536870912       \* 0x2000_0000
CC1310_CHIP_ID == 537034752   \* 0x2002_8000
MAX_PAYLOAD == 252

MaxSegs == 2           \* segments of an image

\* n bytes, not all equal, so that sums and splits are visible
Bytes(n, fill) == [i \in 1..n |-> (fill + i) % 256]

StoredCrc == 17
\* flash segments that are empty and short, and a segment in the RAM
\* aperture
SegmentSet ==
    { Segment(4096, <<>>, StoredCrc),
      Segment(4096, <<1, 2>>, StoredCrc),
      Segment(SRAM_START, <<3>>, StoredCrc) }
\* a flash segment of one byte more than a chunk
TwoChunks == Segment(8192, Bytes(MAX_PAYLOAD + 1, 0), StoredCrc)

RECURSIVE SeqsUpTo(_, _)
SeqsUpTo(S, n) ==
    IF n = 0 THEN {<<>>}
    ELSE LET shorter == SeqsUpTo(S, n - 1)
         IN  shorter \cup {Append(q, x) : q \in {r \in shorter : Len(r) = n - 1}, x \in S}

\* every image of at most MaxSegs short segments; a segment further up in
\* the RAM aperture; images with a segment of more than one chunk, alone,
\* next to a short segment and after a RAM segment; segments of two full
\* chunks, with and without a byte more; three flash segments
FirmwareSet ==
    SeqsUpTo(SegmentSet, MaxSegs)
    \cup { << Segment(SRAM_START + 4096, <<4, 5>>, StoredCrc) >>,
           << Segment(SRAM_START + 4096, <<4, 5>>, StoredCrc),
              Segment(4096, <<1, 2>>, StoredCrc) >> }
    \cup { <<TwoChunks>>,
           << Segment(4096, <<1, 2>>, StoredCrc), TwoChunks >>,
           << TwoChunks, Segment(4096, <<1, 2>>, StoredCrc) >>,
           << TwoChunks, Segment(SRAM_START, <<3>>, StoredCrc) >>,
           << Segment(4096, <<1, 2>>, StoredCrc), Segment(SRAM_START, <<3>>, StoredCrc),
              TwoChunks >> }
    \cup { << Segment(8192, Bytes(2 * MAX_PAYLOAD, 0), StoredCrc) >>,
           << Segment(8192, Bytes(2 * MAX_PAYLOAD + 1, 0), StoredCrc) >> }
    \cup { << Segment(0, <<6>>, StoredCrc), Segment(4096, <<1, 2>>, StoredCrc),
              Segment(8192, <<7, 8, 9>>, StoredCrc) >> }
\* one bit in the RAM aperture, one bit in flash, both
MaskSet == {SRAM_START, 4096, SRAM_START + 4096}

\* usize & usize
RECURSIVE BitAnd(_, _)
BitAnd(a, b) ==
    IF a = 0 \/ b = 0 THEN 0
    ELSE (a % 2) * (b % 2) + 2 * BitAnd(a \div 2, b \div 2)

\* x as u32: the low 32 bits of a usize
AsU32(x) == x - ((x \div 65536) \div 65536) * 65536 * 65536

(***************************************************************************)
(* What the device and the transport can answer                            *)
(***************************************************************************)
IoErr == [io |-> "err", buf |-> <<>>]
Captured(b) == [io |-> "ok", buf |-> b]
NoRx == [io |-> "none", buf |-> <<>>]

\* an exchange whose reply is only the ACK/NACK byte
AckBufs == { <<0, 204>>, <<204, 51>>, <<0, 51>>, <<51, 204>>, <<0, 0>> }
\* the capture of a transfer whose reply the code does not look at
IgnoredBufs == { <<0, 0>>, <<0, 51>> }
\* replies to GetStatus: Success, FlashFail, an undeclared code, a bad
\* checksum, a NACK, silence, and the other declared and undeclared codes
\* around them
StatusBufs == { <<0, 204, 3, 64, 64>>, <<204, 3, 68, 68>>, <<204, 3, 69, 69>>,
                <<204, 3, 0, 64>>, <<0, 51, 204>>, <<0, 0, 0>> }
              \cup { <<ACK_BYTE, 3, b, b>> : b \in {0, 1, 63, 65, 66, 67, 255} }
\* replies to GetChipId: the CC1310 id, another id, a bad checksum, NACK, silence
ChipIdBufs == { <<0, 204, 6, 162, 32, 2, 128, 0>>, <<204, 6, 163, 32, 2, 128, 1>>,
                <<204, 6, 0, 32, 2, 128, 0>>, <<51, 204>>, <<0, 0>> }
\* replies to Crc32: the stored CRC, another CRC, a bad checksum, NACK, silence
CrcBufs == { <<0, 204, 6, 17, 0, 0, 0, 17>>, <<204, 6, 34, 0, 0, 0, 34>>,
             <<204, 6, 1, 0, 0, 0, 17>>, <<0, 51, 204>>, <<0, 0, 0>> }

RxSet(bufs) == {IoErr} \cup {Captured(b) : b \in bufs}

(***************************************************************************)
(* The log of the running call                                             *)
(***************************************************************************)
\* An SPI transfer: io.write of a serialized command, of the host's ACK or
\* of the dummy byte, or io.read of n zero bytes. seg is the index of the
\* segment being handled (0 outside the loop).
\* res is filled in when the transfer is logged: "ok", the status the device
\* reported, or the error the exchange ended with.
Transfer(op, cmd, args, seg) ==
    [op |-> op, cmd |-> cmd, args |-> args, seg |-> seg, res |-> ""]
\* A GPIO line operation that succeeded.
LineOp(line, what, v) ==
    [op |-> "gpio", cmd |-> line, args |-> <<what, v>>, seg |-> 0, res |-> "ok"]

Ops == {"Cc131x::flash_firmware", "Cc131x::need_to_update_firmware",
        "Bootloader::flash_firmware", "Bootloader::firmware_match",
        "Bootloader::erase_sector"}
FacadeOps == {"Cc131x::flash_firmware", "Cc131x::need_to_update_firmware"}
FlashOps == {"Cc131x::flash_firmware", "Bootloader::flash_firmware"}
MatchOps == {"Cc131x::need_to_update_firmware", "Bootloader::firmware_match"}
\* sector addresses given to erase_sector
SectorSet == {0, 4096}

NoCall == [op |-> "none", firmware |-> <<>>, sram |-> 0, sector |-> 0]
NoLocal == [chip_id |-> 0, status |-> "Default", crc |-> 0, matched |-> TRUE,
            final |-> FALSE]
NoCodec == [fn |-> "none", arg |-> <<>>, out |-> NoResult]

\* Pin::new only names the line: direction and level are whatever they were
GpioInit == [bootloader_en |-> [dir |-> "unset", val |-> "unset"],
             reset |-> [dir |-> "unset", val |-> "unset"]]

Init ==
    /\ pc = "idle"
    /\ call = NoCall
    /\ idx = 0
    /\ data = <<>>
    /\ stack = <<>>
    /\ local = NoLocal
    /\ bus = <<>>
    /\ gpio = GpioInit
    /\ result = NoResult
    /\ ncalls = 0
    /\ rx = NoRx
    /\ reported = <<>>
    /\ codec = NoCodec

(***************************************************************************)
(* Helpers of the actions                                                  *)
(***************************************************************************)
Firmware == call.firmware
CurSeg == Firmware[idx]
IsFlash == call.op \in FlashOps

\* The transfer is made: it is logged with how the exchange ended.
Issue(entry, r, a) ==
    /\ bus' = Append(bus, [entry EXCEPT !.res =
                              IF a.kind # "Ok" THEN a.err
                              ELSE IF entry.cmd = "GetStatus" THEN a.val[1] ELSE "ok"])
    /\ rx' = r

\* What the code makes of a transfer: its I/O failure (io.write(..)?,
\* io.read(..)?), or the result of check_ack on the captured bytes
Acked(r) == IF r.io = "err" THEN Err("IO") ELSE check_ack(r.buf)
\* the same with $i::from_payload for the reply variant name
Replied(r, name) == IF r.io = "err" THEN Err("IO") ELSE from_payload(r.buf, name)
\* the same when the code does not look at the captured bytes
Unparsed(r) == IF r.io = "err" THEN Err("IO") ELSE Ok(<<>>)
Halt(res) == pc' = "done" /\ result' = res
Goto(l) == pc' = l /\ UNCHANGED result

\* Result::unwrap() on an Err
Unwrap == Panic("called Result::unwrap() on an Err value")

\* the test inverted
IsRamInverted(seg, sram) == BitAnd(seg.start, sram) = 0

\* mod.rs 181/197: (segment.start & sram) == 0 is false, the segment is skipped
IsRam(seg, sram) == BitAnd(seg.start, sram) # 0

\* the loop taken from the last segment
NextSegmentLast(i) ==
    LET rest == {j \in i..Len(Firmware) : ~IsRam(Firmware[j], call.sram)}
    IN  IF rest = {} THEN 0 ELSE CHOOSE j \in rest : \A k \in rest : j >= k

\* The for-loops of flash_firmware and firmware_match from segment i on:
\* the first segment that is not skipped, 0 when the loop is over.
NextSegment(i) ==
    LET rest == {j \in i..Len(Firmware) : ~IsRam(Firmware[j], call.sram)}
    IN  IF rest = {} THEN 0 ELSE CHOOSE j \in rest : \A k \in rest : j <= k

\* Go on with the loop at segment i, or leave it for system_reset.
Continue(i) ==
    LET j == NextSegment(i)
    IN  /\ UNCHANGED result
        /\ idx' = j
        /\ IF j = 0 THEN pc' = "system_reset" /\ stack' = <<>>
           ELSE IF IsFlash THEN pc' = "download" /\ stack' = <<>>
           ELSE pc' = "crc32_write" /\ stack' = <<"firmware_match">>

(***************************************************************************)
(* lib.rs: the facade and enter_bootloader                                 *)
(***************************************************************************)
\* A call of one of the public operations starts.
\* every operation starting at the first command
EntryPointPing(op) == "ping"

\* lib.rs 212, 218: the facade operations begin with self.enter_bootloader()
\* erase_sector begins with its command
EntryPoint(op) ==
    IF op \in FacadeOps THEN "bootloader_en_direction"
    ELSE IF op = "Bootloader::erase_sector" THEN "sector_erase"
    ELSE "ping"

Call ==
    /\ pc = "idle"
    /\ ncalls < MaxCalls
    /\ \/ \E op \in FlashOps \cup MatchOps, fw \in FirmwareSet, m \in MaskSet :
              /\ op \in FacadeOps => m = SRAM_START
              /\ call' = [op |-> op, firmware |-> fw, sram |-> m, sector |-> 0]
              /\ pc' = EntryPoint(op)
       \/ \E sector \in SectorSet :
              /\ call' = [op |-> "Bootloader::erase_sector", firmware |-> <<>>,
                           sram |-> 0, sector |-> sector]
              /\ pc' = EntryPoint("Bootloader::erase_sector")
    /\ ncalls' = ncalls + 1
    /\ UNCHANGED <<idx, data, stack, local, bus, gpio, result, rx, reported, codec>>

\* The call has returned (or aborted); the caller may make another one.
Return ==
    /\ pc = "done"
    /\ pc' = "idle"
    /\ call' = NoCall
    /\ idx' = 0
    /\ data' = <<>>
    /\ stack' = <<>>
    /\ local' = NoLocal
    /\ bus' = <<>>
    /\ result' = NoResult
    /\ rx' = NoRx
    /\ reported' = <<>>
    /\ UNCHANGED <<gpio, ncalls, codec>>

\* How a failure of enter_bootloader leaves the facade operation:
\* flash_firmware uses ?, need_to_update_firmware uses expect.
EnterFailed(e) ==
    IF call.op = "Cc131x::need_to_update_firmware"
    THEN Panic("Enter bootloader fail!") ELSE Err(e)

\* One sysfs operation on a line at position label; it may fail.
\* Writing "out" to a sysfs direction file makes the line an output at low.
GpioStep(label, line, what, v, next, failed) ==
    /\ pc = label
    /\ \E ok \in BOOLEAN :
         IF ok
         THEN /\ gpio' = [gpio EXCEPT ![line] =
                             IF what = "set_direction" THEN [dir |-> "out", val |-> 0]
                             ELSE [@ EXCEPT !.val = v]]
              /\ bus' = Append(bus, LineOp(line, what, v))
              /\ Goto(next)
         ELSE /\ Halt(failed)
              /\ UNCHANGED <<gpio, bus>>
    /\ UNCHANGED <<call, idx, data, stack, local, ncalls, rx, reported, codec>>

\* the reset pulse before bootloader-enable is set low
EnterBootloaderResetFirst ==
    << "bootloader_en_direction", "reset_direction", "reset_low", "reset_high",
       "bootloader_en_low", "dummy_byte", "bootloader_en_high", "ping" >>

\* lib.rs 195-206 with reset (133-138) in its place: the steps of
\* enter_bootloader in program order, then the first step of the sequencer
EnterBootloader ==
    << "bootloader_en_direction", "bootloader_en_low", "reset_direction",
       "reset_low", "reset_high", "dummy_byte", "bootloader_en_high", "ping" >>

\* the step that follows a step of enter_bootloader
StepAfter(label) ==
    EnterBootloader[(CHOOSE i \in 1..7 : EnterBootloader[i] = label) + 1]

BootloaderEnDirection ==
    GpioStep("bootloader_en_direction", "bootloader_en", "set_direction", "out",
             StepAfter("bootloader_en_direction"),
             Panic("Cannot configure bootloader pin as output!"))

BootloaderEnLow ==
    GpioStep("bootloader_en_low", "bootloader_en", "set_value", 0,
             StepAfter("bootloader_en_low"), EnterFailed("GPIO"))

ResetDirection ==
    GpioStep("reset_direction", "reset", "set_direction", "out",
             StepAfter("reset_direction"), EnterFailed("GPIO"))

ResetLow ==
    GpioStep("reset_low", "reset", "set_value", 0, StepAfter("reset_low"),
             EnterFailed("GPIO"))

ResetHigh ==
    GpioStep("reset_high", "reset", "set_value", 1, StepAfter("reset_high"),
             EnterFailed("GPIO"))

\* self.write(&[0x00])?
DummyByte ==
    /\ pc = "dummy_byte"
    /\ \E r \in RxSet({<<0>>}) :
         /\ Issue(Transfer("write", "dummy", <<0>>, 0), r, Unparsed(r))
         /\ IF r.io = "err" THEN Halt(EnterFailed("IO"))
            ELSE Goto(StepAfter("dummy_byte"))
    /\ UNCHANGED <<call, idx, data, stack, local, gpio, ncalls, reported, codec>>

BootloaderEnHigh ==
    GpioStep("bootloader_en_high", "bootloader_en", "set_value", 1,
             StepAfter("bootloader_en_high"), EnterFailed("GPIO"))

(***************************************************************************)
(* bootloader/mod.rs: initialize                                           *)
(***************************************************************************)
\* Ping::new().serialize()?; io.write(&packet)?; check_ack(resp)?
Ping ==
    /\ pc = "ping"
    /\ LET packet == serialize(Cmd("Ping", <<>>))
       IN  IF packet.kind # "Ok" THEN Halt(packet) /\ UNCHANGED <<bus, rx>>
           ELSE \E r \in RxSet(AckBufs) :
                  LET a == Acked(r)
                  IN  /\ Issue(Transfer("write", "Ping", <<>>, 0), r, a)
                      /\ IF a.kind # "Ok" THEN Halt(a) ELSE Goto("get_chip_id")
    /\ UNCHANGED <<call, idx, data, stack, local, gpio, ncalls, reported, codec>>

\* GetChipId::new().serialize()?; io.write(&packet)?; ChipId::from_payload(response)?
GetChipId ==
    /\ pc = "get_chip_id"
    /\ LET packet == serialize(Cmd("GetChipId", <<>>))
       IN  IF packet.kind # "Ok" THEN Halt(packet) /\ UNCHANGED <<bus, rx, local>>
           ELSE \E r \in RxSet(ChipIdBufs) :
                  LET chip_id == Replied(r, "ChipId")
                  IN  /\ Issue(Transfer("write", "GetChipId", <<>>, 0), r, chip_id)
                      /\ IF chip_id.kind # "Ok"
                         THEN Halt(chip_id) /\ UNCHANGED local
                         ELSE /\ local' = [local EXCEPT !.chip_id = chip_id.val[1]]
                              /\ Goto("chip_id_ack")
    /\ UNCHANGED <<call, idx, data, stack, gpio, ncalls, reported, codec>>

\* any chip id let through
ChipIdAny(chip_id) == TRUE

\* mod.rs 62: assert_eq!(chip_id.value, CC1310_CHIP_ID)
ChipIdExpected(chip_id) == chip_id = CC1310_CHIP_ID

\* Bootloader::ack(io)?; assert_eq!(chip_id.value, CC1310_CHIP_ID); then the
\* caller goes on: erase_chip in flash_firmware, the loop in firmware_match
ChipIdAck ==
    /\ pc = "chip_id_ack"
    /\ \E r \in RxSet(IgnoredBufs) :
         LET a == Unparsed(r)
         IN  /\ Issue(Transfer("write", "ack", <<ACK_BYTE>>, 0), r, a)
             /\ IF a.kind # "Ok" THEN Halt(a) /\ UNCHANGED <<idx, stack>>
                ELSE IF ~ChipIdExpected(local.chip_id)
                THEN Halt(Panic("assertion failed: chip_id")) /\ UNCHANGED <<idx, stack>>
                ELSE IF IsFlash THEN Goto("bank_erase") /\ UNCHANGED <<idx, stack>>
                ELSE Continue(1)
    /\ UNCHANGED <<call, data, local, gpio, ncalls, reported, codec>>

(***************************************************************************)
(* bootloader/mod.rs: erase_sector                                         *)
(***************************************************************************)
\* SectorErase::new(sector).serialize()?; io.write(&packet)?
SectorEraseWrite ==
    /\ pc = "sector_erase"
    /\ LET packet == serialize(Cmd("SectorErase", <<call.sector>>))
       IN  IF packet.kind # "Ok" THEN Halt(packet) /\ UNCHANGED <<bus, rx>>
           ELSE \E r \in RxSet(IgnoredBufs) :
                  LET a == Unparsed(r)
                  IN  /\ Issue(Transfer("write", "SectorErase", <<call.sector>>, 0), r, a)
                      /\ IF a.kind # "Ok" THEN Halt(a) ELSE Goto("sector_erase_read")
    /\ UNCHANGED <<call, idx, data, stack, local, gpio, ncalls, reported, codec>>

\* io.read(28 bytes)?; check_ack(response)?; then get_status
SectorEraseRead ==
    /\ pc = "sector_erase_read"
    /\ \E r \in RxSet(AckBufs) :
         LET a == Acked(r)
         IN  /\ Issue(Transfer("read", "zeros", <<28>>, 0), r, a)
             /\ IF a.kind # "Ok" THEN Halt(a) /\ UNCHANGED stack
                ELSE Goto("get_status") /\ stack' = <<"erase_sector">>
    /\ UNCHANGED <<call, idx, data, local, gpio, ncalls, reported, codec>>

(***************************************************************************)
(* bootloader/mod.rs: erase_chip                                           *)
(***************************************************************************)
\* BankErase::new().serialize()?; io.write(&packet)?
BankEraseWrite ==
    /\ pc = "bank_erase"
    /\ LET packet == serialize(Cmd("BankErase", <<>>))
       IN  IF packet.kind # "Ok" THEN Halt(packet) /\ UNCHANGED <<bus, rx>>
           ELSE \E r \in RxSet(IgnoredBufs) :
                  LET a == Unparsed(r)
                  IN  /\ Issue(Transfer("write", "BankErase", <<>>, 0), r, a)
                      /\ IF a.kind # "Ok" THEN Halt(a) ELSE Goto("bank_erase_read")
    /\ UNCHANGED <<call, idx, data, stack, local, gpio, ncalls, reported, codec>>

\* io.read(28 bytes)?; check_ack(response)?; then get_status
BankEraseRead ==
    /\ pc = "bank_erase_read"
    /\ \E r \in RxSet(AckBufs) :
         LET a == Acked(r)
         IN  /\ Issue(Transfer("read", "zeros", <<28>>, 0), r, a)
             /\ IF a.kind # "Ok" THEN Halt(a) /\ UNCHANGED stack
                ELSE Goto("get_status") /\ stack' = <<"erase_chip">>
    /\ UNCHANGED <<call, idx, data, local, gpio, ncalls, reported, codec>>

(***************************************************************************)
(* bootloader/mod.rs: get_status                                           *)
(***************************************************************************)
\* GetStatus::new().serialize()?; io.write(&packet)?; CommandStatus::from_payload(resp)?
GetStatus ==
    /\ pc = "get_status"
    /\ LET packet == serialize(Cmd("GetStatus", <<>>))
       IN  IF packet.kind # "Ok" THEN Halt(packet) /\ UNCHANGED <<bus, rx, local>>
           ELSE \E r \in RxSet(StatusBufs) :
                  LET status == Replied(r, "CommandStatus")
                  IN  /\ Issue(Transfer("write", "GetStatus", <<>>, idx), r, status)
                      /\ IF status.kind # "Ok"
                         THEN Halt(status) /\ UNCHANGED local
                         ELSE /\ local' = [local EXCEPT !.status = status.val[1]]
                              /\ Goto("get_status_ack")
    /\ UNCHANGED <<call, idx, data, stack, gpio, ncalls, reported, codec>>

\* The message of the assert_eq! on the status in the caller of get_status
StatusAssertion(caller) ==
    CASE caller \in {"erase_sector", "erase_chip"} -> "Failed to Erase Sector"
      [] caller = "write_segment_data" -> "Failed to Send Data"
      [] OTHER -> "Failed to Read CRC"

\* any declared status let through
StatusDeclared(status) == status \in DOMAIN StatusValue

\* assert_eq!(status, StatusValue::Success, ..)
StatusSuccess(status) == status = "Success"

\* Self::ack(&io)?; Ok(status.value); then the caller's assert_eq! on the
\* status and what the caller does next
GetStatusAck ==
    /\ pc = "get_status_ack"
    /\ \E r \in RxSet(IgnoredBufs) :
         LET a == Unparsed(r)
         IN  /\ Issue(Transfer("write", "ack", <<ACK_BYTE>>, idx), r, a)
             /\ IF a.kind # "Ok" THEN Halt(a) /\ UNCHANGED <<idx, stack>>
                ELSE IF ~StatusSuccess(local.status)
                THEN Halt(Panic(StatusAssertion(Head(stack)))) /\ UNCHANGED <<idx, stack>>
                ELSE CASE Head(stack) = "erase_sector" ->
                            Halt(Ok("unit")) /\ UNCHANGED <<idx, stack>>
                       [] Head(stack) = "erase_chip" -> Continue(1)
                       [] Head(stack) = "write_segment_data" ->
                            /\ Goto("crc32_write")
                            /\ stack' = <<"write_segment">>
                            /\ UNCHANGED idx
                       [] OTHER -> Continue(idx + 1)
    /\ UNCHANGED <<call, data, local, gpio, ncalls, reported, codec>>

(***************************************************************************)
(* bootloader/mod.rs: write_segment, write_payload                         *)
(***************************************************************************)
\* Download::new(s.address, s.size).serialize()?; io.write(..)?; check_ack(resp)?;
\* let mut data = segment.data.clone()
Download ==
    /\ pc = "download"
    /\ LET address == AsU32(CurSeg.start)
           size == AsU32(Len(CurSeg.data))
           packet == serialize(Cmd("Download", <<address, size>>))
       IN  IF packet.kind # "Ok" THEN Halt(packet) /\ UNCHANGED <<bus, rx, data>>
           ELSE \E r \in RxSet(AckBufs) :
                  LET a == Acked(r)
                  IN  /\ Issue(Transfer("write", "Download", <<address, size>>, idx), r, a)
                      /\ IF a.kind # "Ok" THEN Halt(a) /\ UNCHANGED data
                         ELSE Goto("send_data") /\ data' = CurSeg.data
    /\ UNCHANGED <<call, idx, stack, local, gpio, ncalls, reported, codec>>

\* one byte less split off
ChunkOneLess(d) == IF Len(d) > MAX_PAYLOAD THEN SubSeq(d, 1, MAX_PAYLOAD - 1) ELSE d

\* mod.rs 153-162: the payload of the next write_payload: the first
\* MAX_PAYLOAD bytes while more than MAX_PAYLOAD are left, then what is left
Chunk(d) == IF Len(d) > MAX_PAYLOAD THEN SubSeq(d, 1, MAX_PAYLOAD) ELSE d

\* One turn of the chunk loop, or the write_payload after it, up to the
\* io.write: SendData::new(payload).serialize()?; io.write(&packet)?
SendDataWrite ==
    /\ pc = "send_data"
    /\ LET more == Len(data) > MAX_PAYLOAD
           payload == Chunk(data)
           rest == SubSeq(data, Len(payload) + 1, Len(data))
           packet == serialize(Cmd("SendData", <<payload>>))
       IN  IF packet.kind # "Ok"
           THEN Halt(packet) /\ UNCHANGED <<bus, rx, data, local>>
           ELSE \E r \in RxSet(IgnoredBufs) :
                  LET a == Unparsed(r)
                  IN  /\ Issue(Transfer("write", "SendData", <<payload>>, idx), r, a)
                      /\ IF a.kind # "Ok" THEN Halt(a) /\ UNCHANGED <<data, local>>
                         ELSE /\ data' = rest
                              /\ local' = [local EXCEPT !.final = ~more]
                              /\ Goto("send_data_read")
    /\ UNCHANGED <<call, idx, stack, gpio, ncalls, reported, codec>>

\* The rest of write_payload: io.read(32 bytes)?; check_ack(response)?
SendDataRead ==
    /\ pc = "send_data_read"
    /\ \E r \in RxSet(AckBufs) :
         LET a == Acked(r)
         IN  /\ Issue(Transfer("read", "zeros", <<32>>, idx), r, a)
             /\ IF a.kind # "Ok" THEN Halt(a) /\ UNCHANGED stack
                ELSE IF local.final
                THEN Goto("get_status") /\ stack' = <<"write_segment_data">>
                ELSE Goto("send_data") /\ UNCHANGED stack
    /\ UNCHANGED <<call, idx, data, local, gpio, ncalls, reported, codec>>

(***************************************************************************)
(* bootloader/mod.rs: get_crc                                              *)
(***************************************************************************)
\* Crc32::new(addr, size, 0).serialize().unwrap(); io.write(&packet).unwrap()
Crc32Write ==
    /\ pc = "crc32_write"
    /\ LET addr == AsU32(CurSeg.start)
           size == AsU32(Len(CurSeg.data))
           packet == serialize(Cmd("Crc32", <<addr, size, 0>>))
       IN  IF packet.kind # "Ok" THEN Halt(Unwrap) /\ UNCHANGED <<bus, rx>>
           ELSE \E r \in RxSet(IgnoredBufs) :
                  LET a == Unparsed(r)
                  IN  /\ Issue(Transfer("write", "Crc32", <<addr, size, 0>>, idx), r, a)
                      /\ IF a.kind # "Ok" THEN Halt(Unwrap) ELSE Goto("crc32_read")
    /\ UNCHANGED <<call, idx, data, stack, local, gpio, ncalls, reported, codec>>

\* io.read(16 bytes)?; Crc32Response::from_payload(response).unwrap()
Crc32Read ==
    /\ pc = "crc32_read"
    /\ \E r \in RxSet(CrcBufs) :
         LET crc32_checksum == Replied(r, "Crc32Response")
         IN  /\ Issue(Transfer("read", "zeros", <<16>>, idx), r, crc32_checksum)
             /\ IF r.io = "err" THEN Halt(Err("IO")) /\ UNCHANGED <<local, reported>>
                ELSE IF crc32_checksum.kind # "Ok"
                THEN Halt(Unwrap) /\ UNCHANGED <<local, reported>>
                ELSE /\ local' = [local EXCEPT !.crc = crc32_checksum.val[1]]
                     /\ reported' = Append(reported, <<idx, crc32_checksum.val[1]>>)
                     /\ Goto("crc32_ack")
    /\ UNCHANGED <<call, idx, data, stack, gpio, ncalls, codec>>

\* an ordering test in place of the inequality
CrcBelow(crc, seg) == crc < seg.crc

\* mod.rs 200: crc != segment.crc
CrcDiffers(crc, seg) == crc # seg.crc

\* Bootloader::ack(io)?; Ok(crc32_checksum.value); then what the caller does
\* with the value: the assert_eq! of write_segment, the comparison of
\* firmware_match
Crc32Ack ==
    /\ pc = "crc32_ack"
    /\ \E r \in RxSet(IgnoredBufs) :
         LET a == Unparsed(r)
         IN  /\ Issue(Transfer("write", "ack", <<ACK_BYTE>>, idx), r, a)
             /\ IF a.kind # "Ok" THEN Halt(a) /\ UNCHANGED <<idx, stack, local>>
                ELSE IF Head(stack) = "write_segment"
                THEN IF CurSeg.crc # local.crc
                     THEN /\ Halt(Panic("assertion failed: segment.crc == crc_read"))
                          /\ UNCHANGED <<idx, stack, local>>
                     ELSE /\ Goto("get_status")
                          /\ stack' = <<"write_segment_crc">>
                          /\ UNCHANGED <<idx, local>>
                ELSE IF CrcDiffers(local.crc, CurSeg)
                     THEN /\ Goto("system_reset")
                          /\ local' = [local EXCEPT !.matched = FALSE]
                          /\ stack' = <<>>
                          /\ UNCHANGED idx
                     ELSE Continue(idx + 1) /\ UNCHANGED local
    /\ UNCHANGED <<call, data, gpio, ncalls, reported, codec>>

(***************************************************************************)
(* bootloader/mod.rs: system_reset, and the return of the operation        *)
(***************************************************************************)
\* the result of firmware_match passed on as it is
NeedToUpdateSame(firmware_match) == firmware_match

\* lib.rs 220-223: need_to_update_firmware returns Ok(false) when
\* firmware_match returned true, Ok(true) otherwise
NeedToUpdate(firmware_match) == ~firmware_match

\* every operation returning what firmware_match found
ReturnValueMatched == IF call.op \in FlashOps THEN "unit" ELSE local.matched

\* What the operation returns once system_reset succeeded.
ReturnValue ==
    CASE call.op \in FlashOps -> "unit"
      [] call.op = "Bootloader::firmware_match" -> local.matched
      [] OTHER -> NeedToUpdate(local.matched)

\* Reset::new().serialize().unwrap(); io.write(&packet).unwrap(); check_ack(response)?
SystemReset ==
    /\ pc = "system_reset"
    /\ LET packet == serialize(Cmd("Reset", <<>>))
       IN  IF packet.kind # "Ok" THEN Halt(Unwrap) /\ UNCHANGED <<bus, rx>>
           ELSE \E r \in RxSet(AckBufs) :
                  LET a == Acked(r)
                  IN  /\ Issue(Transfer("write", "Reset", <<>>, 0), r, a)
                      /\ IF r.io = "err" THEN Halt(Unwrap)
                         ELSE IF a.kind # "Ok" THEN Halt(a)
                         ELSE Halt(Ok(ReturnValue))
    /\ UNCHANGED <<call, idx, data, stack, local, gpio, ncalls, reported, codec>>

Next ==
    \/ Call
    \/ Return
    \/ BootloaderEnDirection
    \/ BootloaderEnLow
    \/ ResetDirection
    \/ ResetLow
    \/ ResetHigh
    \/ DummyByte
    \/ BootloaderEnHigh
    \/ Ping
    \/ GetChipId
    \/ ChipIdAck
    \/ SectorEraseWrite
    \/ SectorEraseRead
    \/ BankEraseWrite
    \/ BankEraseRead
    \/ GetStatus
    \/ GetStatusAck
    \/ Download
    \/ SendDataWrite
    \/ SendDataRead
    \/ Crc32Write
    \/ Crc32Read
    \/ Crc32Ack
    \/ SystemReset

Spec == Init /\ [][Next]_vars

(***************************************************************************)
(* SpecCodec: the pure functions of commands.rs on bounded inputs          *)
(***************************************************************************)
\* u32 field values: small, the values of the unit tests, the chip id, i32::MAX
U32Set == {0, 255, 256, 12336, 43947, CC1310_CHIP_ID, 2147483647}
U8Set == {0, 1, 255}

\* lengths around both bounds of SendData
DataLens == {n \in 0..MaxDataLen : n <= 2 \/ n >= MAX_PAYLOAD - 1}

CommandSet ==
    {Cmd(n, <<>>) : n \in {"Ping", "GetStatus", "Reset", "GetChipId", "BankErase"}}
    \cup {Cmd(n, <<v>>) : n \in {"SectorErase", "ChipId", "Crc32Response"}, v \in U32Set}
    \cup {Cmd(n, <<a, z>>) : n \in {"Download", "MemoryWrite"}, a \in U32Set, z \in U32Set}
    \cup {Cmd("Crc32", <<a, z, t>>) : a \in U32Set, z \in {0, 43947}, t \in {0, 256}}
    \cup {Cmd("MemoryRead", <<a, t, z>>) : a \in U32Set, t \in U8Set, z \in U8Set}
    \cup {Cmd("SendData", <<Bytes(n, f)>>) : n \in DataLens, f \in {0, 50, 254}}
    \cup {Cmd("CommandStatus", <<v>>) : v \in DOMAIN StatusValue}

\* captured buffers: every sequence of at most MaxBufLen bytes out of the
\* two sentinels and two other bytes
BufSet == SeqsUpTo({0, 7, ACK_BYTE, NACK_BYTE}, MaxBufLen)

MaxReplyLen == 5       \* bytes that follow the header of a captured reply

\* What the device puts on the bus for a reply (commands.rs 95-99 and the
\* buffer of test_bl_packet_deserializer): the length byte, which counts
\* itself and the checksum, the sum of the payload, and the payload with
\* its integers big-endian and a status as its code. No command byte.
WireField(t, v) == IF t = "Big" THEN BigEndian32(v) ELSE <<StatusValue[v]>>
WirePayload(name, fields) ==
    LET types == CommandDefs[name].types
        part(i) == WireField(types[i], fields[i])
    IN  IF Len(types) = 0 THEN <<>>
        ELSE IF Len(types) = 1 THEN part(1)
        ELSE IF Len(types) = 2 THEN part(1) \o part(2)
        ELSE part(1) \o part(2) \o part(3)
WireReply(name, fields) ==
    LET p == WirePayload(name, fields)
    IN  <<2 + Len(p), Sum(p) % 256>> \o p

\* the values of the reply variants, and the Crc32 of the unit test
ReplyValues ==
    {Cmd(n, <<v>>) : n \in {"ChipId", "Crc32Response"}, v \in U32Set}
    \cup {Cmd("CommandStatus", <<v>>) : v \in DOMAIN StatusValue}
    \cup {Cmd("Crc32", <<12336, 43947, 0>>)}
\* what is captured before the ACK, and after the declared length
PrefixSet == {<<>>, <<0>>, <<0, 0>>, <<0, 7>>}
TrailingSet == {<<>>, <<0>>, <<ACK_BYTE>>, <<NACK_BYTE, 9>>, <<0, 0, 0, 0>>}

\* a capture that holds the reply of x: arg.of remembers x
SentReplies ==
    {[name |-> x.name, buf |-> pre \o <<ACK_BYTE>> \o WireReply(x.name, x.fields) \o post,
      of |-> <<x.fields>>] :
        x \in ReplyValues, pre \in PrefixSet, post \in TrailingSet}

\* captures with any header: length bytes around the bounds of the
\* variants, checksums that match or not, and up to n bytes after
LengthSet == {0, 1, 2, 3, 4, 6, 7, 8, 10, 14, 254, 255}
ChecksumSet == {0, 64, 128}
CapturedReplies(n) ==
    {[name |-> v, buf |-> pre \o <<ACK_BYTE, l, c>> \o b, of |-> <<>>] :
        v \in CommandNames, pre \in {<<>>, <<0>>}, l \in LengthSet, c \in ChecksumSet,
        b \in SeqsUpTo({0, 64}, n)}
    \cup {[name |-> v, buf |-> b, of |-> <<>>] :
             v \in {"Ping", "ChipId", "CommandStatus"}, b \in BufSet}

CodecInputs ==
    {[fn |-> "serialize", arg |-> c, out |-> NoResult] : c \in CommandSet}
    \cup {[fn |-> "check_ack", arg |-> b, out |-> NoResult] : b \in BufSet}

\* the captures handed to from_payload, with at most n bytes after a header
ReplyInputs(n) ==
    {[fn |-> "from_payload", arg |-> a, out |-> NoResult] :
        a \in SentReplies \cup CapturedReplies(n)}

CodecInit ==
    /\ pc = "idle"
    /\ call = NoCall
    /\ idx = 0
    /\ data = <<>>
    /\ stack = <<>>
    /\ local = NoLocal
    /\ bus = <<>>
    /\ gpio = GpioInit
    /\ result = NoResult
    /\ ncalls = 0
    /\ rx = NoRx
    /\ reported = <<>>
    /\ codec \in CodecInputs \cup ReplyInputs(MaxReplyLen)

Called == codec.out.kind # "None"

Serialize ==
    /\ codec.fn = "serialize"
    /\ ~Called
    /\ codec' = [codec EXCEPT !.out = serialize(codec.arg)]
    /\ UNCHANGED <<pc, call, idx, data, stack, local, bus, gpio, result, ncalls, rx,
                   reported>>

CheckAck ==
    /\ codec.fn = "check_ack"
    /\ ~Called
    /\ codec' = [codec EXCEPT !.out = check_ack(codec.arg)]
    /\ UNCHANGED <<pc, call, idx, data, stack, local, bus, gpio, result, ncalls, rx,
                   reported>>

\* $i::from_payload(from_bus) for the variant arg.name
FromPayload ==
    /\ codec.fn = "from_payload"
    /\ ~Called
    /\ codec' = [codec EXCEPT !.out = from_payload(codec.arg.buf, codec.arg.name)]
    /\ UNCHANGED <<pc, call, idx, data, stack, local, bus, gpio, result, ncalls, rx,
                   reported>>

CodecNext ==
    \/ Serialize
    \/ CheckAck
    \/ FromPayload

SpecCodec == CodecInit /\ [][CodecNext]_vars

(***************************************************************************)
(* firmware_image.rs: the image model. A u32 that uses all its 32 bits     *)
(* (a CRC32) is written as its four bytes, most significant first.         *)
(***************************************************************************)
MaxLines == 4          \* lines of a HEX text

\* a 32-bit word as its bits, least significant first, and back
WordBits(w) == [i \in 1..32 |-> (w[4 - ((i - 1) \div 8)] \div (2 ^ ((i - 1) % 8))) % 2]
BitsWord(b) ==
    [k \in 1..4 |->
        LET lo == 8 * (4 - k)
        IN  b[lo + 1] + 2 * b[lo + 2] + 4 * b[lo + 3] + 8 * b[lo + 4]
            + 16 * b[lo + 5] + 32 * b[lo + 6] + 64 * b[lo + 7] + 128 * b[lo + 8]]
Xor(a, b) == [i \in 1..32 |-> (a[i] + b[i]) % 2]
ShiftRight(b) == [i \in 1..32 |-> IF i < 32 THEN b[i + 1] ELSE 0]

\* crc::crc32::checksum_ieee: the reflected CRC-32 of IEEE 802.3,
\* polynomial 0xEDB88320, initial value and final xor 0xFFFFFFFF
IEEE == WordBits(<<237, 184, 131, 32>>)
AllOnes == WordBits(<<255, 255, 255, 255>>)
RECURSIVE CrcRounds(_, _)
CrcRounds(b, n) ==
    IF n = 0 THEN b
    ELSE CrcRounds(IF b[1] = 1 THEN Xor(ShiftRight(b), IEEE) ELSE ShiftRight(b), n - 1)
RECURSIVE CrcUpdate(_, _, _)
CrcUpdate(b, bytes, i) ==
    IF i > Len(bytes) THEN b
    ELSE CrcUpdate(CrcRounds(Xor(b, WordBits(<<0, 0, 0, bytes[i]>>)), 8), bytes, i + 1)
checksum_ieee(bytes) == BitsWord(Xor(CrcUpdate(AllOnes, bytes, 1), AllOnes))

\* crc: 0
ZeroCrc == <<0, 0, 0, 0>>

\* usize | usize
RECURSIVE BitOr(_, _)
BitOr(a, b) ==
    IF a = 0 THEN b
    ELSE IF b = 0 THEN a
    ELSE (IF a % 2 = 1 \/ b % 2 = 1 THEN 1 ELSE 0) + 2 * BitOr(a \div 2, b \div 2)

\* ihex::record::Record: offset holds the offset of a Data record and the
\* value of an extended address record
Record(type, offset, value) == [type |-> type, offset |-> offset, value |-> value]
DataRecord(offset, value) == Record("Data", offset, value)
EndOfFile == Record("EndOfFile", 0, <<>>)

\* A segment of a parsed image. line is not in the code: it is the place
\* in the file of the first data record of the segment, 0 as long as the
\* segment from_records starts with has none.
ParsedSegment(start, d, crc, line) ==
    [start |-> start, data |-> d, crc |-> crc, line |-> line]

RECURSIVE Reverse(_)
Reverse(s) == IF s = <<>> THEN <<>> ELSE Append(Reverse(Tail(s)), Head(s))

\* the segments left as they were pushed
FinalSegmentsAsPushed(segments) == segments

\* firmware_image.rs 88: segments.reverse()
FinalSegments(segments) == Reverse(segments)

\* the offset added to the base
NewLocSum(offset, ext_addr) == offset + ext_addr

\* firmware_image.rs 64: offset as usize | ext_addr
NewLoc(offset, ext_addr) == BitOr(offset, ext_addr)

\* The loop of from_records (58-87): records.pop() takes the last record.
\* n counts the records taken so far.
RECURSIVE FromRecordsLoop(_, _, _, _, _, _)
FromRecordsLoop(records, segments, ext_addr, current_segment, hit_eof, n) ==
    IF records = <<>> THEN Panic("called Option::unwrap() on a None value")
    ELSE LET rec == records[Len(records)]
             rest == SubSeq(records, 1, Len(records) - 1)
             go(segs, ext, cur, eof) == FromRecordsLoop(rest, segs, ext, cur, eof, n + 1)
         IN  CASE rec.type = "Data" ->
                    IF hit_eof THEN Err("EndOfFileInMiddleOfFile")
                    ELSE LET new_loc == NewLoc(rec.offset, ext_addr)
                         IN  IF current_segment.start + Len(current_segment.data) # new_loc
                             THEN go(Append(segments,
                                            [current_segment EXCEPT
                                                !.crc = checksum_ieee(current_segment.data)]),
                                     ext_addr,
                                     ParsedSegment(new_loc, rec.value, ZeroCrc, n + 1),
                                     hit_eof)
                             ELSE go(segments, ext_addr,
                                     [current_segment EXCEPT
                                         !.data = @ \o rec.value,
                                         !.line = IF @ = 0 THEN n + 1 ELSE @],
                                     hit_eof)
               [] rec.type = "ExtendedSegmentAddress" ->
                    go(segments, rec.offset * 16, current_segment, hit_eof)
               [] rec.type = "ExtendedLinearAddress" ->
                    go(segments, rec.offset * 65536, current_segment, hit_eof)
               [] rec.type = "EndOfFile" ->
                    IF hit_eof THEN Ok(FinalSegments(Append(segments, current_segment)))
                    ELSE go(segments, ext_addr, current_segment, TRUE)
               [] rec.type = "StartSegmentAddress" ->
                    go(segments, ext_addr, current_segment, hit_eof)
               [] OTHER -> Panic("Unhandled iHex record type!")

\* FirmwareImage::from_records. Ok carries the segments of the image.
from_records(records) ==
    FromRecordsLoop(records, <<>>, 0, ParsedSegment(0, <<>>, ZeroCrc, 0), FALSE, 0)

\* A line of the text as Record::from_record_string of the ihex crate reads
\* it: a record, no start code (a blank line), or another reader error.
RecordLine(rec) == [read |-> "Ok", record |-> rec]
NoStartCode == [read |-> "MissingStartCode", record |-> EndOfFile]
Malformed == [read |-> "ReaderError", record |-> EndOfFile]

\* FirmwareImage::new on the lines that file.split("\r\n") gives
new(lines) ==
    IF \E i \in 1..Len(lines) : lines[i].read = "ReaderError"
    THEN Panic("RecordReader Error")
    ELSE LET records == [i \in 1..Len(lines) |->
                            IF lines[i].read = "Ok" THEN lines[i].record ELSE EndOfFile]
         IN  from_records(Reverse(records))

(***************************************************************************)
(* firmware_image.rs: serialize and deserialize, which hand the image to   *)
(* bincode: a Vec as its length in 8 bytes and its elements, a usize in 8  *)
(* bytes, a u32 in 4 bytes, all little-endian, the fields of a struct in   *)
(* declared order.                                                         *)
(***************************************************************************)
\* a length or a usize below 2^31
U64LittleEndian(n) ==
    <<n % 256, (n \div 256) % 256, (n \div 65536) % 256, (n \div 16777216) % 256,
      0, 0, 0, 0>>
\* the crc written most significant byte first
U32AsWritten(w) == w
\* pub crc: u32
U32LittleEndian(w) == <<w[4], w[3], w[2], w[1]>>

\* #[derive(Serialize)] struct Segment { start, data, crc }
SegmentBytes(seg) ==
    U64LittleEndian(seg.start) \o U64LittleEndian(Len(seg.data)) \o seg.data
        \o U32LittleEndian(seg.crc)
RECURSIVE SegmentsBytes(_, _)
SegmentsBytes(segments, i) ==
    IF i > Len(segments) THEN <<>>
    ELSE SegmentBytes(segments[i]) \o SegmentsBytes(segments, i + 1)

\* FirmwareImage::serialize
FirmwareImage_serialize(segments) ==
    Ok(U64LittleEndian(Len(segments)) \o SegmentsBytes(segments, 1))

\* Reading 8 bytes at pos as a u64; Ok carries <<value, new position>>.
\* A value of 2^31 or more is beyond what the model holds.
ReadU64(encoded, pos) ==
    IF Len(encoded) - pos < 8 THEN Err("Io_UnexpectedEof")
    ELSE IF encoded[pos + 4] >= 128 \/ \E k \in 5..8 : encoded[pos + k] # 0
         THEN Err("SizeLimit")
    ELSE Ok(<<((encoded[pos + 4] * 256 + encoded[pos + 3]) * 256
                 + encoded[pos + 2]) * 256 + encoded[pos + 1], pos + 8>>)

\* #[derive(Deserialize)] struct Segment; Ok carries <<segment, new position>>
ReadSegment(encoded, pos) ==
    LET start == ReadU64(encoded, pos)
    IN  IF start.kind # "Ok" THEN start
        ELSE LET len == ReadU64(encoded, start.val[2])
             IN  IF len.kind # "Ok" THEN len
                 ELSE LET at == len.val[2]
                          n == len.val[1]
                      IN  IF Len(encoded) - at < n + 4 THEN Err("Io_UnexpectedEof")
                          ELSE Ok(<<Segment(start.val[1],
                                            SubSeq(encoded, at + 1, at + n),
                                            <<encoded[at + n + 4], encoded[at + n + 3],
                                              encoded[at + n + 2], encoded[at + n + 1]>>),
                                    at + n + 4>>)

RECURSIVE ReadSegments(_, _, _, _)
ReadSegments(encoded, pos, left, acc) ==
    IF left = 0 THEN Ok(acc)
    ELSE LET seg == ReadSegment(encoded, pos)
         IN  IF seg.kind # "Ok" THEN seg
             ELSE ReadSegments(encoded, seg.val[2], left - 1, Append(acc, seg.val[1]))

\* FirmwareImage::deserialize. Ok carries the segments of the image.
FirmwareImage_deserialize(encoded) ==
    LET count == ReadU64(encoded, 0)
    IN  IF count.kind # "Ok" THEN count
        ELSE ReadSegments(encoded, 8, count.val[1], <<>>)

(***************************************************************************)
(* lib.rs: assert_if_invalid                                               *)
(***************************************************************************)
CCFG == 130984               \* 0x1FFA8
BL_CONFIG_OFFSET == 48       \* 12 * 4
BL_CONFIG_REG == BitOr(CCFG, BL_CONFIG_OFFSET)
\* 0xC507_FEC5 as BigEndian::read_u32 finds it
BL_EXPECT == <<197, 7, 254, 197>>

\* The body of the loop for one segment: the range test, split_at, which
\* panics when the segment is shorter than the offset, read_u32, which
\* panics on fewer than four bytes, and the assert_eq!
CheckSegment(segment) ==
    LET range == <<segment.start, segment.start + Len(segment.data)>>
    IN  IF ~(BL_CONFIG_REG >= range[1] /\ BL_CONFIG_REG <= range[2]) THEN Ok("unit")
        ELSE IF BL_CONFIG_OFFSET > Len(segment.data)
        THEN Panic("assertion failed: mid <= self.len()")
        ELSE LET d == SubSeq(segment.data, BL_CONFIG_OFFSET + 1, Len(segment.data))
             IN  IF Len(d) < 4 THEN Panic("range end index 4 out of range for slice")
                 ELSE IF SubSeq(d, 1, 4) # BL_EXPECT
                 THEN Panic("BL Config Register has changed!")
                 ELSE Ok("unit")

\* Cc131x::assert_if_invalid: the segments in order, up to the first panic
RECURSIVE AssertLoop(_, _)
AssertLoop(segments, i) ==
    IF i > Len(segments) THEN Ok("unit")
    ELSE LET r == CheckSegment(segments[i])
         IN  IF r.kind # "Ok" THEN r ELSE AssertLoop(segments, i + 1)

assert_if_invalid(segments) == AssertLoop(segments, 1)

(***************************************************************************)
(* SpecImage: the functions of firmware_image.rs on bounded inputs         *)
(***************************************************************************)
\* n bytes, zero but for the four bytes of word after the first at bytes
WordAt(n, at, word) ==
    [i \in 1..n |-> IF i > at /\ i <= at + 4 THEN word[i - at] ELSE 0]
\* segments around the configuration word: the 88 bytes of the CCFG area
\* with the expected word at its offset 48, or at the register address, or
\* at both, or another word at its offset 48; segments that begin 48
\* bytes before the register; short segments at, before and up to the
\* register; a segment elsewhere
ConfigSegments ==
    { Segment(CCFG, WordAt(88, BL_CONFIG_OFFSET, BL_EXPECT), ZeroCrc),
      Segment(CCFG, WordAt(88, BL_CONFIG_REG - CCFG, BL_EXPECT), ZeroCrc),
      Segment(CCFG, [i \in 1..88 |-> BL_EXPECT[((i - 1) % 4) + 1]], ZeroCrc),
      Segment(CCFG, WordAt(88, BL_CONFIG_OFFSET, <<255, 255, 255, 255>>), ZeroCrc),
      Segment(BL_CONFIG_REG - BL_CONFIG_OFFSET,
              WordAt(52, BL_CONFIG_OFFSET, BL_EXPECT), ZeroCrc),
      Segment(BL_CONFIG_REG - BL_CONFIG_OFFSET,
              WordAt(52, BL_CONFIG_OFFSET, <<255, 255, 255, 255>>), ZeroCrc),
      Segment(BL_CONFIG_REG, BL_EXPECT, ZeroCrc),
      Segment(BL_CONFIG_REG - 4, BL_EXPECT, ZeroCrc),
      Segment(BL_CONFIG_REG - 50, WordAt(52, BL_CONFIG_OFFSET, BL_EXPECT), ZeroCrc),
      Segment(0, <<1, 2>>, ZeroCrc) }

\* data records at 0, next to it and apart, the two kinds of base address
\* (16 and 65536), both start address records
RecordSet ==
    { DataRecord(0, <<1, 2>>), DataRecord(2, <<3>>), DataRecord(16, <<4>>),
      Record("ExtendedSegmentAddress", 1, <<>>),
      Record("ExtendedLinearAddress", 1, <<>>),
      EndOfFile,
      Record("StartSegmentAddress", 0, <<>>),
      Record("StartLinearAddress", 0, <<>>) }
LineSet == {RecordLine(r) : r \in RecordSet} \cup {NoStartCode, Malformed}

\* the text of scenario 3 of the specification, and three segments
LongTexts ==
    { << RecordLine(Record("ExtendedLinearAddress", 0, <<>>)),
         RecordLine(DataRecord(0, <<1, 2>>)), RecordLine(DataRecord(2, <<3>>)),
         RecordLine(Record("ExtendedLinearAddress", 1, <<>>)),
         RecordLine(DataRecord(0, <<1, 2>>)), RecordLine(DataRecord(2, <<3>>)),
         RecordLine(EndOfFile), NoStartCode >>,
      << RecordLine(DataRecord(16, <<4>>)), RecordLine(DataRecord(0, <<1, 2>>)),
         RecordLine(DataRecord(16, <<4>>)), RecordLine(EndOfFile), NoStartCode >>,
      \* a run that goes on across an extended address record: 14, 15 and,
      \* with the base 16, 16 and 17
      << RecordLine(DataRecord(14, <<5, 6>>)),
         RecordLine(Record("ExtendedSegmentAddress", 1, <<>>)),
         RecordLine(DataRecord(0, <<1, 2>>)), RecordLine(EndOfFile), NoStartCode >>,
      \* the same base given again between two records that follow each other
      << RecordLine(Record("ExtendedLinearAddress", 1, <<>>)),
         RecordLine(DataRecord(0, <<1, 2>>)),
         RecordLine(Record("ExtendedLinearAddress", 1, <<>>)),
         RecordLine(DataRecord(2, <<3>>)), RecordLine(EndOfFile), NoStartCode >> }

\* texts of at most n lines; split never gives an empty list of lines
Texts(n) == (SeqsUpTo(LineSet, n) \ {<<>>}) \cup LongTexts

\* images to serialize: any start, data and crc
PlainSegments ==
    {Segment(a, d, c) : a \in {0, 4096, 2147483647}, d \in {<<>>, <<1>>, <<255, 0, 7>>},
                        c \in {ZeroCrc, <<1, 2, 3, 4>>, <<255, 255, 255, 255>>}}

\* texts of at most n lines, vectors of fewer than n records, images of at
\* most m segments
ImageInputs(n, m) ==
    {[fn |-> "FirmwareImage::new", arg |-> t, out |-> NoResult] : t \in Texts(n)}
    \cup {[fn |-> "FirmwareImage::from_records", arg |-> r, out |-> NoResult] :
             r \in SeqsUpTo(RecordSet, n - 1)}
    \cup {[fn |-> "FirmwareImage::serialize", arg |-> i, out |-> NoResult] :
             i \in SeqsUpTo(PlainSegments, m)}
    \cup {[fn |-> "Cc131x::assert_if_invalid", arg |-> i, out |-> NoResult] :
             i \in SeqsUpTo(ConfigSegments, m)}

ImageInit ==
    /\ pc = "idle"
    /\ call = NoCall
    /\ idx = 0
    /\ data = <<>>
    /\ stack = <<>>
    /\ local = NoLocal
    /\ bus = <<>>
    /\ gpio = GpioInit
    /\ result = NoResult
    /\ ncalls = 0
    /\ rx = NoRx
    /\ reported = <<>>
    /\ codec \in ImageInputs(MaxLines, MaxSegs)

New ==
    /\ codec.fn = "FirmwareImage::new"
    /\ ~Called
    /\ codec' = [codec EXCEPT !.out = new(codec.arg)]
    /\ UNCHANGED <<pc, call, idx, data, stack, local, bus, gpio, result, ncalls, rx,
                   reported>>

FromRecords ==
    /\ codec.fn = "FirmwareImage::from_records"
    /\ ~Called
    /\ codec' = [codec EXCEPT !.out = from_records(codec.arg)]
    /\ UNCHANGED <<pc, call, idx, data, stack, local, bus, gpio, result, ncalls, rx,
                   reported>>

ImageSerialize ==
    /\ codec.fn = "FirmwareImage::serialize"
    /\ ~Called
    /\ codec' = [codec EXCEPT !.out = FirmwareImage_serialize(codec.arg)]
    /\ UNCHANGED <<pc, call, idx, data, stack, local, bus, gpio, result, ncalls, rx,
                   reported>>

\* deserialize on what serialize gave (test_serialize_deserialize): arg
\* keeps the image and the bytes
ImageDeserialize ==
    /\ codec.fn = "FirmwareImage::serialize"
    /\ Called
    /\ codec.out.kind = "Ok"
    /\ codec' = [fn |-> "FirmwareImage::deserialize",
                 arg |-> [image |-> codec.arg, encoded |-> codec.out.val],
                 out |-> FirmwareImage_deserialize(codec.out.val)]
    /\ UNCHANGED <<pc, call, idx, data, stack, local, bus, gpio, result, ncalls, rx,
                   reported>>

AssertIfInvalid ==
    /\ codec.fn = "Cc131x::assert_if_invalid"
    /\ ~Called
    /\ codec' = [codec EXCEPT !.out = assert_if_invalid(codec.arg)]
    /\ UNCHANGED <<pc, call, idx, data, stack, local, bus, gpio, result, ncalls, rx,
                   reported>>

ImageNext ==
    \/ New
    \/ FromRecords
    \/ ImageSerialize
    \/ ImageDeserialize
    \/ AssertIfInvalid

SpecImage == ImageInit /\ [][ImageNext]_vars

(***************************************************************************)
(* Properties of the wire codec, under SpecCodec                           *)
(***************************************************************************)
SerializeCalled == codec.fn = "serialize" /\ Called
CheckAckCalled == codec.fn = "check_ack" /\ Called
CodecDef == CommandDefs[codec.arg.name]

Min(S) == CHOOSE i \in S : \A j \in S : i <= j
AckAt(b) == {i \in 1..Len(b) : b[i] = ACK_BYTE}
NackAt(b) == {i \in 1..Len(b) : b[i] = NACK_BYTE}

\* C7: check_ack is decided by the first sentinel of the buffer: it
\* succeeds iff a 0xCC occurs with no 0x33 before it, and then the read
\* position is right after that first 0xCC; it fails with Nack iff a 0x33
\* occurs with no 0xCC before it; it fails with NoAck iff the buffer holds
\* neither byte.
C7_FirstSentinelDecides ==
    CheckAckCalled =>
        LET b == codec.arg
            out == codec.out
        IN  /\ out.kind = "Ok" <=> \E i \in AckAt(b) : \A j \in NackAt(b) : i < j
            /\ out.kind = "Ok" => out.val = Min(AckAt(b))
            /\ (out.kind = "Err" /\ out.err = "Nack")
                   <=> \E i \in NackAt(b) : \A j \in AckAt(b) : i < j
            /\ (out.kind = "Err" /\ out.err = "NoAck")
                   <=> AckAt(b) \cup NackAt(b) = {}

\* an ACK after two idle bytes wins over the NACK that follows it
C7_Witness ==
    /\ CheckAckCalled
    /\ codec.arg = <<0, 0, ACK_BYTE, NACK_BYTE>>
    /\ codec.out.kind = "Ok"
    /\ codec.out.val = 3

\* The value a run of bytes encodes in big-endian order.
RECURSIVE BigEndianValue(_)
BigEndianValue(s) ==
    IF s = <<>> THEN 0
    ELSE BigEndianValue(SubSeq(s, 1, Len(s) - 1)) * 256 + s[Len(s)]

FieldWidth(t, v) ==
    CASE t = "Sma" -> 1
      [] t = "Med" -> 2
      [] t = "Big" -> 4
      [] OTHER -> Len(v)

\* bytes, from position pos on, are exactly the fields i.. in declared order
RECURSIVE FieldsEncoded(_, _, _, _, _)
FieldsEncoded(bytes, types, fields, i, pos) ==
    IF i > Len(types) THEN pos = Len(bytes)
    ELSE LET w == FieldWidth(types[i], fields[i])
             part == SubSeq(bytes, pos + 1, pos + w)
         IN  /\ pos + w <= Len(bytes)
             /\ IF types[i] = "Vector" THEN part = fields[i]
                ELSE \* field values are below 2^31: so is what encodes them
                     /\ w = 4 => part[1] < 128
                     /\ BigEndianValue(part) = fields[i]
             /\ FieldsEncoded(bytes, types, fields, i + 1, pos + w)

\* C8: a command that serializes gives [len, checksum, CMD], the payload,
\* then exactly IDLE zero bytes, with len = 3 + |payload| (not truncated),
\* checksum = (CMD + sum of the payload) mod 256, and the payload the
\* fields in declared order, integers big-endian.
C8_PacketShape ==
    (SerializeCalled /\ codec.out.kind = "Ok") =>
        LET o == codec.out.val
            n == Len(o) - 3 - CodecDef.NULL_BYTES
            payload == SubSeq(o, 4, 3 + n)
        IN  /\ n >= 0
            /\ o[1] = 3 + n
            /\ o[2] = (CodecDef.CMD + Sum(payload)) % 256
            /\ o[3] = CodecDef.CMD
            /\ \A i \in (4 + n)..Len(o) : o[i] = 0
            /\ FieldsEncoded(payload, CodecDef.types, codec.arg.fields, 1, 0)

\* the packet of the unit test test_bl_packet_serializer
C8_Witness ==
    /\ SerializeCalled
    /\ codec.arg = Cmd("Crc32", <<12336, 43947, 0>>)
    /\ codec.out.kind = "Ok"
    /\ codec.out.val = <<15, 221, 39, 0, 0, 48, 48, 0, 0, 171, 171, 0, 0, 0, 0>>

FixedSize(name) == CommandDefs[name].MIN_LEN = CommandDefs[name].MAX_LEN

\* C9 as stated: every fixed-size variant, the reply-only ones included,
\* serializes for every field value, to MIN_LEN + IDLE bytes.
C9_Original ==
    (SerializeCalled /\ FixedSize(codec.arg.name)) =>
        /\ codec.out.kind = "Ok"
        /\ Len(codec.out.val) = CodecDef.MIN_LEN + CodecDef.NULL_BYTES

\* C9 amended: every fixed-size variant other than CommandStatus serializes
\* for every field value, to MIN_LEN + IDLE bytes; serializing a
\* CommandStatus aborts and gives no packet.
C9_FixedSizeLength ==
    (SerializeCalled /\ FixedSize(codec.arg.name)) =>
        IF codec.arg.name = "CommandStatus"
        THEN codec.out.kind = "Panic" /\ codec.out.val = <<>>
        ELSE /\ codec.out.kind = "Ok"
             /\ Len(codec.out.val) = CodecDef.MIN_LEN + CodecDef.NULL_BYTES

\* MemoryRead: 9 bytes of packet and 272 idle bytes
C9_Witness ==
    /\ SerializeCalled
    /\ codec.arg.name = "MemoryRead"
    /\ codec.out.kind = "Ok"
    /\ Len(codec.out.val) = 281

\* C10: SendData serializes exactly for 1 to 252 data bytes; 0 bytes fail
\* with MinPayloadNotMet, 253 or more with MaxPayloadExceeded, and a
\* failure gives no packet.
C10_SendDataBounds ==
    (SerializeCalled /\ codec.arg.name = "SendData") =>
        LET n == Len(codec.arg.fields[1])
            out == codec.out
        IN  /\ out.kind = "Ok" <=> n \in 1..252
            /\ n = 0 => out.kind = "Err" /\ out.err = "MinPayloadNotMet" /\ out.val = <<>>
            /\ n >= 253 =>
                   out.kind = "Err" /\ out.err = "MaxPayloadExceeded" /\ out.val = <<>>
            /\ out.kind = "Ok" => Len(out.val) = 3 + n

\* 253 bytes are refused
C10_Witness ==
    /\ SerializeCalled
    /\ codec.arg.name = "SendData"
    /\ Len(codec.arg.fields[1]) = 253
    /\ codec.out.kind = "Err"
    /\ codec.out.err = "MaxPayloadExceeded"

FromPayloadCalled == codec.fn = "from_payload" /\ Called
ReplyVariants == {"ChipId", "Crc32Response", "CommandStatus"}

\* C11: parsing a capture made of a prefix free of 0xCC and 0x33, then
\* 0xCC, then [2 + |payload|, (sum of payload) mod 256], then the
\* big-endian payload of a reply value x, then any trailing bytes, returns
\* x, for every value x of ChipId, Crc32Response and CommandStatus.
C11_ReplyRoundTrip ==
    (FromPayloadCalled /\ codec.arg.of # <<>> /\ codec.arg.name \in ReplyVariants) =>
        /\ codec.out.kind = "Ok"
        /\ codec.out.val = codec.arg.of[1]

\* the chip id, behind two idle bytes and followed by a NACK byte
C11_Witness ==
    /\ FromPayloadCalled
    /\ codec.arg.name = "ChipId"
    /\ codec.arg.buf = <<0, 7, 204, 6, 162, 32, 2, 128, 0, 51, 9>>
    /\ codec.out = Ok(<<CC1310_CHIP_ID>>)

\* where the header of a capture starts, if check_ack lets it through
HeaderAt(b) == IF AckAt(b) = {} THEN 0 ELSE Min(AckAt(b))
HasHeader(b) ==
    /\ AckAt(b) # {}
    /\ \A j \in NackAt(b) : HeaderAt(b) < j
    /\ Len(b) >= HeaderAt(b) + 2
Failed(out, e) == out.kind = "Err" /\ out.err = e /\ out.val = <<>>

\* C20: a reply whose len byte is below MIN_LEN-1 is refused with
\* MinPayloadNotMet and one above MAX_LEN-1 with MaxPayloadExceeded,
\* however many bytes follow; with len in bounds, fewer than len-2 bytes
\* after the header give PacketTooShort, and len-2 bytes whose sum mod 256
\* is not the checksum byte give BadChecksum; each of the four errors comes
\* from that case only and with no parsed value; MIN_LEN >= 3 for every
\* variant and the subtraction len-2 never aborts.
C20_MalformedReplies ==
    /\ \A n \in CommandNames : CommandDefs[n].MIN_LEN >= 3
    /\ FromPayloadCalled =>
        LET b == codec.arg.buf
            out == codec.out
            def == CodecDef
            at == HeaderAt(b)
            len == b[at + 1]
            rest == Len(b) - (at + 2)
            low == len < def.MIN_LEN - 1
            high == len > def.MAX_LEN - 1
            short == ~low /\ ~high /\ rest < len - 2
            badsum == /\ ~low /\ ~high /\ ~short
                      /\ Sum(SubSeq(b, at + 3, at + len)) % 256 # b[at + 2]
        IN  /\ out.kind # "Panic"
            /\ out.kind = "Err" => out.val = <<>>
            /\ Failed(out, "MinPayloadNotMet") <=> (HasHeader(b) /\ low)
            /\ Failed(out, "MaxPayloadExceeded") <=> (HasHeader(b) /\ high)
            /\ Failed(out, "PacketTooShort") <=> (HasHeader(b) /\ short)
            /\ Failed(out, "BadChecksum") <=> (HasHeader(b) /\ badsum)

\* a status reply whose checksum byte is not the status code
C20_Witness ==
    /\ FromPayloadCalled
    /\ codec.arg.name = "CommandStatus"
    /\ codec.arg.buf = <<204, 3, 0, 64>>
    /\ Failed(codec.out, "BadChecksum")

(***************************************************************************)
(* Properties of the sequencer and the facade, under Spec                  *)
(***************************************************************************)
Finished == pc = "done"
Succeeded == Finished /\ result.kind = "Ok"
LastTransfer == bus[Len(bus)]

\* segment j is outside the RAM aperture given to the call
NonRam(j) == BitAnd(Firmware[j].start, call.sram) = 0

\* the indexes of the non-RAM segments, in image order
NonRamSegs == SelectSeq([j \in 1..Len(Firmware) |-> j], NonRam)

IsCommand(e) == e.op = "write" /\ e.cmd \notin {"ack", "dummy"}
IsDownload(e) == e.cmd = "Download"
IsCrc32(e) == e.cmd = "Crc32"
IsReset(e) == e.cmd = "Reset"

\* the commands transmitted so far, in order
Commands == SelectSeq(bus, IsCommand)
SegOf(entries) == [k \in 1..Len(entries) |-> entries[k].seg]

\* the first command of the handling of a segment
FirstCommand == IF IsFlash THEN "Download" ELSE "Crc32"
FirstStep == IF IsFlash THEN "download" ELSE "crc32_write"

\* the loop over the segments has come to segment j and has acted on it, or
\* has gone past it
Reached(j) ==
    IF idx # 0 THEN j < idx \/ (j = idx /\ pc # FirstStep)
    ELSE pc = "system_reset" \/ (Finished /\ \E k \in 1..Len(bus) : IsReset(bus[k]))

\* C1: whatever the image and the RAM mask m, no Download, SendData or
\* Crc32 is transmitted for a segment with (start & m) # 0, and every
\* segment with (start & m) = 0 the loop has reached got its Download
\* (flash_firmware) or its Crc32 query (firmware_match).
C1_RamSegmentsSkipped ==
    /\ \A k \in 1..Len(bus) :
           bus[k].cmd \in {"Download", "SendData", "Crc32"} =>
               /\ bus[k].seg \in 1..Len(Firmware)
               /\ BitAnd(Firmware[bus[k].seg].start, call.sram) = 0
    /\ \A j \in 1..Len(Firmware) :
           (NonRam(j) /\ Reached(j)) =>
               \E k \in 1..Len(bus) :
                   /\ bus[k].cmd = FirstCommand
                   /\ bus[k].seg = j
                   /\ bus[k].args[1] = Firmware[j].start

\* an image with a segment at 0x2000_0000 and one at 0x1000, flashed with
\* the mask 0x2000_0000, got the Download of the second segment only
C1_Witness ==
    /\ call.op = "Bootloader::flash_firmware"
    /\ call.sram = SRAM_START
    /\ Len(Firmware) = 2
    /\ Firmware[1].start = SRAM_START
    /\ Firmware[2].start = 4096
    /\ Succeeded
    /\ SegOf(SelectSeq(bus, IsDownload)) = <<2>>

\* C2: a successful flash_firmware transmitted Ping, GetChipId, BankErase
\* and a GetStatus reporting Success, then the commands of the non-RAM
\* segments, segment after segment in image order, each starting with its
\* Download, then one Reset, the last transfer; and at no time was a
\* Download transmitted before BankErase, the ACK read after it and a
\* GetStatus reporting Success.
C2_FlashOrder ==
    /\ (IsFlash /\ Succeeded) =>
           LET cmds == Commands
               n == Len(cmds)
           IN  /\ n >= 5
               /\ cmds[1].cmd = "Ping"
               /\ cmds[2].cmd = "GetChipId"
               /\ cmds[3].cmd = "BankErase"
               /\ cmds[4].cmd = "GetStatus" /\ cmds[4].res = "Success"
               /\ cmds[n].cmd = "Reset"
               /\ LastTransfer = cmds[n]
               /\ Len(SelectSeq(cmds, IsReset)) = 1
               /\ SegOf(SelectSeq(cmds, IsDownload)) = NonRamSegs
               /\ \A k \in 5..(n - 1) :
                      /\ cmds[k].seg \in 1..Len(Firmware)
                      /\ NonRam(cmds[k].seg)
                      /\ cmds[k].seg # cmds[k - 1].seg => cmds[k].cmd = "Download"
                      /\ k > 5 => cmds[k - 1].seg <= cmds[k].seg
    /\ IsFlash =>
           \A k \in 1..Len(bus) :
               IsDownload(bus[k]) =>
                   \E e \in 1..k, a \in 1..k, g \in 1..k :
                       /\ e < a /\ a < g /\ g < k
                       /\ bus[e].cmd = "BankErase" /\ bus[e].res = "ok"
                       /\ bus[a].op = "read" /\ bus[a].res = "ok"
                       /\ bus[g].cmd = "GetStatus" /\ bus[g].res = "Success"

\* two non-RAM segments around a RAM segment were written in image order
C2_Witness ==
    /\ IsFlash
    /\ Succeeded
    /\ NonRamSegs = <<1, 3>>
    /\ SegOf(SelectSeq(bus, IsDownload)) = <<1, 3>>

\* What went wrong in an exchange, told from the captured bytes alone.
NackFirst(b) == \E i \in NackAt(b) : \A j \in AckAt(b) : i < j
NoSentinel(b) == AckAt(b) \cup NackAt(b) = {}
BadReplySum(b) ==
    /\ AckAt(b) # {}
    /\ LET i == Min(AckAt(b))
       IN  /\ Len(b) >= i + 2
           /\ Len(b) >= i + b[i + 1]
           /\ Sum(SubSeq(b, i + 3, i + b[i + 1])) % 256 # b[i + 2]

\* the transfers whose captured bytes the sequencer reads: for an ACK, for
\* a reply packet
WantsAck(e) == (e.op = "write" /\ e.cmd \in {"Ping", "Download", "Reset"}) \/ e.op = "read"
WantsReply(e) ==
    (e.op = "write" /\ e.cmd \in {"GetChipId", "GetStatus"})
        \/ (e.op = "read" /\ e.args = <<16>>)

Cause(e, r) ==
    IF r.io = "err" THEN "IO"
    ELSE IF ~(WantsAck(e) \/ WantsReply(e)) THEN "none"
    ELSE IF NackFirst(r.buf) THEN "Nack"
    ELSE IF NoSentinel(r.buf) THEN "NoAck"
    ELSE IF WantsReply(e) /\ BadReplySum(r.buf) THEN "BadChecksum"
    ELSE "none"

\* C3: when an exchange of the sequencer fails (a NACK before any ACK, no
\* ACK, a bad reply checksum, an I/O failure of the transport), the
\* operation returns the error naming the cause and makes no further
\* transfer.
C3_FailureReturnsError ==
    (bus # <<>> /\ LastTransfer.op # "gpio" /\ LastTransfer.cmd # "dummy"
         /\ Cause(LastTransfer, rx) # "none") =>
        /\ Finished
        /\ result.kind = "Err"
        /\ result.err = Cause(LastTransfer, rx)

\* the CRCs the device reported, and the stored ones they are compared to
ReportedCrc(k) == reported[k][2]
StoredCrcOf(k) == Firmware[reported[k][1]].crc

\* C4: a firmware_match that met no error queried the CRC of the non-RAM
\* segments in image order up to the first one whose device CRC differs,
\* returned false iff there was one, true only if every non-RAM segment
\* was queried and matched, and transmitted one Reset, as the last
\* transfer.
C4_FirmwareMatch ==
    (call.op = "Bootloader::firmware_match" /\ Succeeded) =>
        LET queried == SegOf(SelectSeq(bus, IsCrc32))
            n == Len(queried)
        IN  /\ n <= Len(NonRamSegs)
            /\ queried = SubSeq(NonRamSegs, 1, n)
            /\ Len(reported) = n
            /\ \A k \in 1..n : reported[k][1] = queried[k]
            /\ \A k \in 1..(n - 1) : ReportedCrc(k) = StoredCrcOf(k)
            /\ result.val = FALSE <=> (n >= 1 /\ ReportedCrc(n) # StoredCrcOf(n))
            /\ result.val = TRUE <=>
                   (n = Len(NonRamSegs) /\ \A k \in 1..n : ReportedCrc(k) = StoredCrcOf(k))
            /\ Len(SelectSeq(bus, IsReset)) = 1
            /\ IsReset(LastTransfer)

\* the first of two non-RAM segments differs: the second is not queried
C4_Witness ==
    /\ call.op = "Bootloader::firmware_match"
    /\ Succeeded
    /\ Len(NonRamSegs) = 2
    /\ SegOf(SelectSeq(bus, IsCrc32)) = <<NonRamSegs[1]>>
    /\ result.val = FALSE

\* C5: need_to_update_firmware returns true exactly when the device
\* reported, for a non-RAM segment, a CRC other than the stored one (the
\* negation of what firmware_match returns), and a Reset was transmitted
\* before it returns.
C5_NeedToUpdate ==
    (call.op = "Cc131x::need_to_update_firmware" /\ Succeeded) =>
        /\ result.val = TRUE <=>
               \E k \in 1..Len(reported) : ReportedCrc(k) # StoredCrcOf(k)
        /\ result.val = ~local.matched
        /\ \A k \in 1..Len(reported) : NonRam(reported[k][1])
        /\ \E k \in 1..Len(bus) : IsReset(bus[k])

\* the device CRC of the first segment differs: true, after a Reset
C5_Witness ==
    /\ call.op = "Cc131x::need_to_update_firmware"
    /\ Succeeded
    /\ Len(reported) = 1
    /\ reported[1][1] = 1
    /\ ReportedCrc(1) # StoredCrcOf(1)
    /\ result.val = TRUE
    /\ IsReset(LastTransfer)

\* C6 as stated: after a CRC mismatch need_to_update_firmware returns false.
C6_Original ==
    (call.op = "Cc131x::need_to_update_firmware" /\ Succeeded /\ ~local.matched) =>
        result.val = FALSE

\* C6 amended: a CRC mismatch in need_to_update_firmware is not an error:
\* the next transfer is the Reset, and once the Reset is acknowledged the
\* call returns true.
C6_MismatchReturnsTrue ==
    (call.op = "Cc131x::need_to_update_firmware" /\ ~local.matched) =>
        \/ pc = "system_reset" /\ ~IsReset(LastTransfer)
        \/ /\ Finished
           /\ IsReset(LastTransfer)
           /\ Len(SelectSeq(bus, IsReset)) = 1
           /\ LastTransfer.res = "ok" => result.kind = "Ok"
           /\ result.kind = "Ok" => result.val = TRUE

\* the second non-RAM segment differs: Reset, then true
C6_Witness ==
    /\ call.op = "Cc131x::need_to_update_firmware"
    /\ ~local.matched
    /\ Len(reported) = 2
    /\ Finished
    /\ result.kind = "Ok"
    /\ result.val = TRUE

\* the transfers of write_segment for segment j, in order
OfSegment(j) == SelectSeq(bus, LAMBDA e : e.seg = j)
Shape(entries) == [k \in 1..Len(entries) |-> entries[k].cmd]
NumberOf(entries, cmd) == Cardinality({k \in 1..Len(entries) : entries[k].cmd = cmd})

RECURSIVE Chunks(_)
Chunks(k) == IF k = 0 THEN <<>> ELSE Chunks(k - 1) \o <<"SendData", "zeros">>
\* what write_segment transfers when it sends k chunks: each SendData is
\* followed by the read of its ACK, each GetStatus and the CRC reply by the
\* ACK of the host
SegmentShape(k) ==
    <<"Download">> \o Chunks(k)
        \o <<"GetStatus", "ack", "Crc32", "zeros", "ack", "GetStatus", "ack">>

\* write_segment returned Ok for segment j: the loop went on
Written(j) == IsFlash /\ OfSegment(j) # <<>> /\ (idx > j \/ idx = 0)

\* C16: the transfers of write_segment for a segment are, in this order,
\* Download(start, |data|), the SendData chunks each followed by the read
\* of its ACK, GetStatus, Crc32(start, |data|, 0), GetStatus; a transfer is
\* made only when all the earlier ones were acknowledged and answered
\* (after a status other than Success only the ACK of that status
\* follows), the second GetStatus only when the device reported the stored
\* crc; there are at most two GetStatus, none between chunks; and when
\* write_segment has succeeded all the transfers were made, with exactly
\* two GetStatus, both answered Success, and the device reported the
\* stored crc.
C16_WriteSegmentOrder ==
    IsFlash => \A j \in 1..Len(Firmware) :
        LET e == OfSegment(j)
            k == NumberOf(e, "SendData")
            expected == SegmentShape(IF k = 0 THEN 1 ELSE k)
        IN  e # <<>> =>
              /\ Len(e) <= Len(expected)
              /\ Shape(e) = SubSeq(expected, 1, Len(e))
              /\ e[1].args = <<Firmware[j].start, Len(Firmware[j].data)>>
              /\ \A i \in 1..Len(e) :
                     /\ i < Len(e) =>
                            \/ e[i].res \in {"ok", "Success"}
                            \/ /\ e[i].cmd = "GetStatus"
                               /\ e[i].res \in DOMAIN StatusValue
                               /\ i = Len(e) - 1
                     /\ e[i].cmd = "Crc32" =>
                            e[i].args = <<Firmware[j].start, Len(Firmware[j].data), 0>>
              /\ NumberOf(e, "GetStatus") <= 2
              /\ NumberOf(e, "GetStatus") = 2 =>
                     \E r \in 1..Len(reported) : reported[r] = <<j, Firmware[j].crc>>
              /\ Written(j) =>
                     /\ Shape(e) = expected
                     /\ \A i \in 1..Len(e) : e[i].res \in {"ok", "Success"}
                     /\ NumberOf(e, "GetStatus") = 2
                     /\ \E r \in 1..Len(reported) :
                            reported[r] = <<j, Firmware[j].crc>>

\* a segment of 253 bytes written in two chunks, and the flash completed
C16_Witness ==
    /\ Succeeded
    /\ IsFlash
    /\ \E j \in 1..Len(Firmware) :
          /\ Written(j)
          /\ Len(Firmware[j].data) = 253
          /\ Shape(OfSegment(j)) =
                 <<"Download", "SendData", "zeros", "SendData", "zeros",
                   "GetStatus", "ack", "Crc32", "zeros", "ack", "GetStatus", "ack">>

\* the data of the SendData commands sent for segment j, in order
SentChunks(j) ==
    LET e == SelectSeq(OfSegment(j), LAMBDA x : x.cmd = "SendData")
    IN  [k \in 1..Len(e) |-> e[k].args[1]]
\* all the chunks of segment j were sent: write_segment went on to GetStatus
AllSent(j) == NumberOf(OfSegment(j), "GetStatus") > 0
Smaller(a, b) == IF a < b THEN a ELSE b

\* C17: for a segment of n >= 1 bytes, the i-th SendData of write_segment
\* carries the bytes 252(i-1)+1 .. min(252 i, n) of the data (so the
\* chunks are 252 bytes each but for the last one, which has 1 to 252, and
\* concatenated they are the data); once all are sent they are exactly
\* ceil(n/252), their lengths sum to the size announced in Download; and
\* no chunk is refused with a bound error.
C17_Chunking ==
    IsFlash => \A j \in 1..Len(Firmware) :
        LET d == Firmware[j].data
            n == Len(d)
            e == OfSegment(j)
            c == SentChunks(j)
        IN  (n >= 1 /\ e # <<>>) =>
              /\ \A i \in 1..Len(c) :
                     /\ 252 * (i - 1) < n
                     /\ c[i] = SubSeq(d, 252 * (i - 1) + 1, Smaller(252 * i, n))
                     /\ Len(c[i]) \in 1..252
                     /\ i < Len(c) => Len(c[i]) = 252
              /\ AllSent(j) =>
                     /\ Len(c) = (n + 251) \div 252
                     /\ 252 * (Len(c) - 1) + Len(c[Len(c)]) = e[1].args[2]
                     /\ e[1].args[2] = n
              /\ (Finished /\ idx = j /\ result.kind = "Err") =>
                     result.err \notin {"MinPayloadNotMet", "MaxPayloadExceeded"}

\* 505 bytes went out as 252, 252 and 1
C17_Witness ==
    /\ IsFlash
    /\ Len(Firmware) = 1
    /\ Len(Firmware[1].data) = 505
    /\ AllSent(1)
    /\ [k \in 1..Len(SentChunks(1)) |-> Len(SentChunks(1)[k])] = <<252, 252, 1>>

IsFacade == call.op \in FacadeOps
\* what enter_bootloader does on the lines and the bus, all of it done
EntrySequence ==
    << LineOp("bootloader_en", "set_direction", "out"),
       LineOp("bootloader_en", "set_value", 0),
       LineOp("reset", "set_direction", "out"),
       LineOp("reset", "set_value", 0),
       LineOp("reset", "set_value", 1),
       [Transfer("write", "dummy", <<0>>, 0) EXCEPT !.res = "ok"],
       LineOp("bootloader_en", "set_value", 1) >>
\* where the call stands when the first n steps are done
EntrySequenceLabel(n) ==
    CASE n = 0 -> "bootloader_en_direction"
      [] n = 1 -> "bootloader_en_low"
      [] n = 2 -> "reset_direction"
      [] n = 3 -> "reset_low"
      [] n = 4 -> "reset_high"
      [] n = 5 -> "dummy_byte"
      [] OTHER -> "bootloader_en_high"
\* a transfer of the sequencer: a command, the read of a reply, an ACK
IsSequencer(e) == e.op # "gpio" /\ e.cmd # "dummy"
\* Ping was ACKed, the chip id read, acknowledged and found to be the
\* expected one, all before the k-th entry of the log
Initialized(k) ==
    /\ \E p, q \in 1..(k - 1) :
          /\ p < q /\ q + 1 < k
          /\ bus[p].cmd = "Ping" /\ bus[p].res = "ok"
          /\ bus[q].cmd = "GetChipId" /\ bus[q].res = "ok"
          /\ bus[q + 1].cmd = "ack" /\ bus[q + 1].res = "ok"
    /\ local.chip_id = CC1310_CHIP_ID

\* C18: in a call of the facade operations flash_firmware and
\* need_to_update_firmware, the second of two successive calls included,
\* the whole of enter_bootloader comes first and once, before any transfer
\* of the sequencer; BankErase, Download, SendData and Crc32 are sent only
\* after Ping was ACKed and the chip id verified in that call; and nothing
\* is transferred after Reset.
C18_LinearSession ==
    IsFacade =>
        \A k \in 1..Len(bus) :
            /\ IsSequencer(bus[k]) => (k > 7 /\ SubSeq(bus, 1, 7) = EntrySequence)
            /\ k > 7 => IsSequencer(bus[k])
            /\ bus[k].cmd \in {"BankErase", "Download", "SendData", "Crc32"} => Initialized(k)
            /\ bus[k].cmd = "Reset" => k = Len(bus)

\* the second call, a flash through the facade that ended with Reset
C18_Witness ==
    /\ ncalls = 2
    /\ call.op = "Cc131x::flash_firmware"
    /\ Succeeded
    /\ SubSeq(bus, 1, 7) = EntrySequence
    /\ bus[8].cmd = "Ping"
    /\ \E k \in 1..Len(bus) : bus[k].cmd = "SendData"
    /\ LastTransfer.cmd = "Reset"

\* what the device answered last, when the operation has ended
StatusNotSuccess ==
    /\ Len(bus) >= 2
    /\ bus[Len(bus) - 1].cmd = "GetStatus"
    /\ bus[Len(bus) - 1].res \in DOMAIN StatusValue \ {"Success"}
    /\ LastTransfer.cmd = "ack" /\ LastTransfer.res = "ok"
CrcNotStored ==
    /\ stack = <<"write_segment">>
    /\ LastTransfer.cmd = "ack" /\ LastTransfer.res = "ok"
    /\ local.crc # CurSeg.crc
ChipIdNotExpected ==
    /\ Len(bus) >= 2
    /\ bus[Len(bus) - 1].cmd = "GetChipId" /\ bus[Len(bus) - 1].res = "ok"
    /\ LastTransfer.cmd = "ack" /\ LastTransfer.res = "ok"
    /\ local.chip_id # CC1310_CHIP_ID
CrcReplyRefused ==
    /\ LastTransfer.op = "read" /\ LastTransfer.args = <<16>>
    /\ LastTransfer.res \in {"Nack", "NoAck", "BadChecksum"}

\* C19: when the operation has ended on a status other than Success after
\* erase or write, on a device CRC other than the stored crc in
\* write_segment, on a chip id other than the expected one, or on a NACK,
\* a missing ACK or a bad checksum in the reply to a CRC query, it has
\* returned an error value and has not aborted.
C19_FailuresReturned ==
    (Finished /\ bus # <<>>
        /\ (StatusNotSuccess \/ CrcNotStored \/ ChipIdNotExpected \/ CrcReplyRefused))
    => result.kind = "Err"

\* the status bytes the claim lists, with the variant each stands for
AcceptedStatus(b) ==
    CASE b = 0 -> "Default"
      [] b = 64 -> "Success"
      [] b = 65 -> "UnknownCmd"
      [] b = 66 -> "InvalidCmd"
      [] b = 67 -> "InvalidAddr"
      [] b = 68 -> "FlashFail"
      [] OTHER -> "InvalidStatusCode"
\* a reply packet of one status byte with its checksum, as the device sends it
StatusReply(b) == <<ACK_BYTE, 3, b, b>>
\* every byte decoded: a listed one gives its variant, any other the error
StatusDecoding ==
    \A b \in 0..255 :
        from_payload(StatusReply(b), "CommandStatus") =
            IF AcceptedStatus(b) = "InvalidStatusCode" THEN Err("InvalidStatusCode")
            ELSE Ok(<<AcceptedStatus(b)>>)
\* the status byte of the reply just captured, when it is a reply packet
\* of one status byte with a matching checksum
CapturedStatus ==
    IF rx.io = "err" THEN -1
    ELSE IF \E b \in 0..255 : rx.buf \in {StatusReply(b), <<0>> \o StatusReply(b)}
    THEN rx.buf[Len(rx.buf)]
    ELSE -1
Statuses == {"Default", "Success", "UnknownCmd", "InvalidCmd", "InvalidAddr", "FlashFail"}

\* C21: a CommandStatus reply decodes to its variant for the status bytes
\* 0x00, 0x40 .. 0x44 and fails with InvalidStatusCode for any other byte,
\* in get_status as in the decoder alone; after a GetStatus that did not
\* report Success nothing follows but the ACK of the host, and erase_sector,
\* erase_chip and write_segment do not complete; the host sends its ACK
\* after a GetStatus only when the reply was parsed to a status, and once.
C21_StatusDecoding ==
    /\ StatusDecoding
    /\ (bus # <<>> /\ LastTransfer.cmd = "GetStatus" /\ CapturedStatus # -1) =>
           /\ LastTransfer.res = AcceptedStatus(CapturedStatus)
           /\ LastTransfer.res = "InvalidStatusCode" =>
                  (Finished /\ result = Err("InvalidStatusCode"))
    /\ \A k \in 1..Len(bus) :
           /\ (bus[k].cmd = "GetStatus" /\ bus[k].res # "Success") =>
                  /\ k >= Len(bus) - 1
                  /\ pc \in {"done", "get_status_ack"}
                  /\ Finished => result.kind # "Ok"
                  /\ bus[k].res \notin Statuses => (k = Len(bus) /\ Finished)
           /\ (bus[k].cmd = "ack" /\ k > 1 /\ bus[k - 1].cmd = "GetStatus") =>
                  bus[k - 1].res \in Statuses
           /\ (bus[k].cmd = "ack" /\ k > 1) => bus[k - 1].cmd # "ack"
    /\ (call.op = "Bootloader::erase_sector" /\ Succeeded) =>
           /\ Shape(bus) = <<"SectorErase", "zeros", "GetStatus", "ack">>
           /\ bus[1].args = <<call.sector>>
           /\ bus[3].res = "Success"
    /\ IsFlash =>
           \A k \in 1..Len(bus) :
               bus[k].cmd \in {"Download", "Reset"} =>
                   \E e \in 1..k, g \in 1..k :
                       /\ e < g
                       /\ bus[e].cmd = "BankErase"
                       /\ bus[g].cmd = "GetStatus" /\ bus[g].res = "Success"
                       /\ bus[g + 1].cmd = "ack"
                       /\ \A i \in e..g : bus[i].seg = 0
    /\ IsFlash =>
           \A j \in 1..Len(Firmware) :
               Written(j) =>
                   \A i \in 1..Len(OfSegment(j)) :
                       OfSegment(j)[i].cmd = "GetStatus" => OfSegment(j)[i].res = "Success"

\* erase_sector completed: the device reported Success and got the ACK
C21_Witness ==
    /\ call.op = "Bootloader::erase_sector"
    /\ call.sector = 4096
    /\ Succeeded
    /\ rx.io # "err"
    /\ bus[3].cmd = "GetStatus" /\ bus[3].res = "Success"
    /\ LastTransfer.cmd = "ack"

\* the 32-bit value in the last four bytes of the reply just captured
CapturedWord ==
    LET b == rx.buf
        n == Len(b)
    IN  ((b[n - 3] * 256 + b[n - 2]) * 256 + b[n - 1]) * 256 + b[n]
\* the place in the log of the ACK that initialize sent for the chip id
ChipIdAcked == {k \in 2..Len(bus) : bus[k].cmd = "ack" /\ bus[k - 1].cmd = "GetChipId"}
\* initialize has returned Ok: the ACK went out and the call went on
InitializeReturned ==
    \E k \in ChipIdAcked : bus[k].res = "ok" /\ ~(Finished /\ k = Len(bus))

\* C25: GetChipId is sent only right after a Ping that was ACKed, and after
\* a Ping that was not ACKed nothing is sent; the chip id is the 32-bit
\* value of the reply; the host sends its one ACK only when the reply was
\* parsed; initialize returns Ok only if the chip id is 0x20028000, and when
\* it is another value the call ends without any further transfer and
\* without returning Ok.
C25_Initialize ==
    /\ \A k \in 1..Len(bus) :
           /\ bus[k].cmd = "GetChipId" =>
                  /\ k > 1
                  /\ bus[k - 1].cmd = "Ping" /\ bus[k - 1].res = "ok"
                  /\ bus[k].res # "ok" => (k = Len(bus) /\ Finished /\ result.kind = "Err")
           /\ (bus[k].cmd = "Ping" /\ bus[k].res # "ok") =>
                  /\ k = Len(bus)
                  /\ Finished
                  /\ result = Err(bus[k].res)
           /\ bus[k].cmd = "Ping" =>
                  \A i \in 1..(k - 1) : bus[i].op = "gpio" \/ bus[i].cmd = "dummy"
           /\ k \in ChipIdAcked =>
                  /\ bus[k - 1].res = "ok"
                  /\ k < Len(bus) => bus[k + 1].cmd # "ack"
    /\ (bus # <<>> /\ LastTransfer.cmd = "GetChipId" /\ LastTransfer.res = "ok") =>
           /\ local.chip_id = CapturedWord
           /\ pc = "chip_id_ack"
    /\ InitializeReturned => local.chip_id = 537034752
    /\ (ChipIdAcked # {} /\ local.chip_id # 537034752) =>
           /\ Finished
           /\ result.kind # "Ok"
           /\ LastTransfer.cmd = "ack"
    /\ \A k \in 1..Len(bus) :
           bus[k].cmd \in {"BankErase", "Crc32", "Download", "Reset"} => InitializeReturned

\* Ping ACKed, the chip id 0x20028000 read and acknowledged, and the flash
\* about to erase
C25_Witness ==
    /\ call.op = "Bootloader::flash_firmware"
    /\ pc = "bank_erase"
    /\ Shape(bus) = <<"Ping", "GetChipId", "ack">>
    /\ \A k \in 1..3 : bus[k].res = "ok"
    /\ local.chip_id = 537034752

\* what enter_bootloader has logged so far: its line changes and the dummy
\* byte, whether the write succeeded or not
EntryLog == SelectSeq(bus, LAMBDA e : e.op = "gpio" \/ e.cmd = "dummy")
SameStep(e, f) == e.op = f.op /\ e.cmd = f.cmd /\ e.args = f.args
Low == [dir |-> "out", val |-> 0]
High == [dir |-> "out", val |-> 1]

\* C26: in a call through the facade the line changes of enter_bootloader
\* come in the order bootloader-enable low, reset low, reset high, the
\* 0x00 byte, bootloader-enable high, each only when all before it
\* succeeded: bootloader-enable is low from before reset is driven low
\* until the byte has gone out, reset is low and then high meanwhile, and
\* when a step fails the call ends there, without the later steps and
\* without a transfer of the sequencer.
C26_EnterBootloader ==
    IsFacade =>
        LET n == Len(EntryLog)
        IN  /\ n <= 7
            /\ EntryLog = SubSeq(bus, 1, n)
            /\ \A k \in 1..n :
                   /\ SameStep(EntryLog[k], EntrySequence[k])
                   /\ EntryLog[k].res # "ok" =>
                          (k = 6 /\ Len(bus) = 6 /\ Finished /\ result.kind # "Ok")
            /\ n \in 1..6 => gpio.bootloader_en = Low
            /\ n \in 3..4 => gpio.reset = Low
            /\ n \in 5..6 => gpio.reset = High
            /\ n = 7 => (gpio.bootloader_en = High /\ gpio.reset = High)
            /\ (n < 7 /\ Finished) => (Len(bus) = n /\ result.kind # "Ok")
            /\ n < 7 =>
                   \/ Finished
                   \/ /\ pc = EntrySequenceLabel(n)
                      /\ \A k \in 1..n : bus[k].res = "ok"

\* the reset step of a facade call failed after reset was driven low:
\* bootloader-enable was low, and nothing more was done
C26_Witness ==
    /\ call.op = "Cc131x::flash_firmware"
    /\ Finished
    /\ result = Err("GPIO")
    /\ Shape(bus) = <<"bootloader_en", "bootloader_en", "reset", "reset">>
    /\ gpio.bootloader_en = Low
    /\ gpio.reset = Low

(***************************************************************************)
(* Properties of the image model, under SpecImage                          *)
(***************************************************************************)
NewCalled == codec.fn = "FirmwareImage::new" /\ Called
Parsed ==
    /\ codec.fn \in {"FirmwareImage::new", "FirmwareImage::from_records"}
    /\ Called
    /\ codec.out.kind = "Ok"
Segments == codec.out.val

\* C12: every segment of an image that HEX parsing returned, the last
\* segment of the file included, has crc = crc32_ieee(data).
C12_SegmentCrc ==
    Parsed => \A i \in 1..Len(Segments) : Segments[i].crc = checksum_ieee(Segments[i].data)

\* C22: every segment of an image that HEX parsing returned has at least
\* one data byte, wherever the first data record of the file lies.
C22_SegmentsNotEmpty ==
    Parsed => \A i \in 1..Len(Segments) : Len(Segments[i].data) >= 1

\* the records of the input in the order of the file
FileRecords ==
    IF codec.fn = "FirmwareImage::new"
    THEN [n \in 1..Len(codec.arg) |-> codec.arg[n].record]
    ELSE [n \in 1..Len(codec.arg) |-> codec.arg[Len(codec.arg) + 1 - n]]
EofAt == {n \in 1..Len(FileRecords) : FileRecords[n].type = "EndOfFile"}
\* the data records read before from_records returns at the second EOF
DataAt ==
    {n \in 1..Len(FileRecords) :
        /\ FileRecords[n].type = "Data"
        /\ Cardinality({m \in EofAt : m < n}) < 2}
ExtendedAt ==
    {n \in 1..Len(FileRecords) :
        FileRecords[n].type \in {"ExtendedSegmentAddress", "ExtendedLinearAddress"}}
Largest(S) == CHOOSE i \in S : \A j \in S : i >= j
\* the base in force at record n: that of the latest extended address record
BaseAt(n) ==
    LET before == {m \in ExtendedAt : m < n}
    IN  IF before = {} THEN 0
        ELSE LET r == FileRecords[Largest(before)]
             IN  IF r.type = "ExtendedSegmentAddress" THEN r.offset * 16
                 ELSE r.offset * 65536
\* base | offset
AddressAt(n) ==
    BaseAt(n) + FileRecords[n].offset - BitAnd(BaseAt(n), FileRecords[n].offset)
\* the address after the last byte of the data record before record n, 0
\* when there is none
EndBefore(n) ==
    LET before == {m \in DataAt : m < n}
    IN  IF before = {} THEN 0
        ELSE AddressAt(Largest(before)) + Len(FileRecords[Largest(before)].value)
\* the data records that do not go on where the one before ended
Splits == {n \in DataAt : AddressAt(n) # EndBefore(n)}
\* the segments in the order in which from_records closed them
InFileOrder == [k \in 1..Len(Segments) |-> Segments[Len(Segments) + 1 - k]]
\* the segment a data record belongs to
SegmentOf(n) == 1 + Cardinality({m \in Splits : m <= n})

\* C23: with the base of the latest extended address record (segment value
\* * 16, linear value * 65536) a data record at offset o has the address
\* base | o; it goes on the current segment iff that address is start +
\* |data| of it, otherwise a new segment starts at that address. So the
\* segments after the one from_records starts with are those that begin at
\* the records in Splits, in that order, each holding the values of its
\* records one after the other and nothing else; no segment starts where
\* the one before it ends; an extended address record by itself starts none.
C23_Segmentation ==
    Parsed =>
        LET segs == InFileOrder
        IN  /\ Len(segs) = 1 + Cardinality(Splits)
            /\ segs[1].start = 0
            /\ \A k \in 2..Len(segs) :
                   /\ segs[k].line \in Splits
                   /\ SegmentOf(segs[k].line) = k
                   /\ segs[k].start = AddressAt(segs[k].line)
            /\ \A n \in DataAt :
                   LET seg == segs[SegmentOf(n)]
                       at == AddressAt(n) - seg.start
                       v == FileRecords[n].value
                   IN  /\ at >= 0
                       /\ at + Len(v) <= Len(seg.data)
                       /\ SubSeq(seg.data, at + 1, at + Len(v)) = v
                       /\ at + Len(v) < Len(seg.data) =>
                              \E m \in DataAt : m > n /\ SegmentOf(m) = SegmentOf(n)
                                                     /\ AddressAt(m) = AddressAt(n) + Len(v)
            /\ \A k \in 1..Len(segs) :
                   (\A n \in DataAt : SegmentOf(n) # k) => segs[k].data = <<>>
            /\ \A k \in 1..(Len(segs) - 1) :
                   segs[k].start + Len(segs[k].data) # segs[k + 1].start

\* bytes at 14 and 15, then the base 16 and bytes at offset 0: one segment
\* of four bytes at 14, after the empty one from_records starts with
C23_Witness ==
    /\ NewCalled
    /\ codec.arg = << RecordLine(DataRecord(14, <<5, 6>>)),
                      RecordLine(Record("ExtendedSegmentAddress", 1, <<>>)),
                      RecordLine(DataRecord(0, <<1, 2>>)), RecordLine(EndOfFile),
                      NoStartCode >>
    /\ codec.out.kind = "Ok"
    /\ Len(Segments) = 2
    /\ Segments[1].start = 14 /\ Segments[1].data = <<5, 6, 1, 2>>
    /\ Segments[2].start = 0 /\ Segments[2].data = <<>>

\* the segments that hold a data record
WithData == {i \in 1..Len(Segments) : Segments[i].line > 0}

Handled(l) ==
    /\ l.read = "Ok"
    /\ l.record.type \in {"Data", "ExtendedSegmentAddress", "ExtendedLinearAddress",
                           "StartSegmentAddress", "EndOfFile"}
IsEofRecord(l) == l.read = "Ok" /\ l.record.type = "EndOfFile"
IsDataRecord(l) == l.read = "Ok" /\ l.record.type = "Data"

\* C14: a text of records that ends with an EOF record and one line
\* without a start code parses to an image; a text in which a data record
\* comes after an EOF record fails with EndOfFileInMiddleOfFile and gives
\* no image.
C14_EndOfFile ==
    NewCalled =>
        LET t == codec.arg
            n == Len(t)
        IN  /\ ( /\ n >= 2
                 /\ t[n] = NoStartCode
                 /\ IsEofRecord(t[n - 1])
                 /\ \A i \in 1..(n - 2) : Handled(t[i]) /\ ~IsEofRecord(t[i]) )
               => codec.out.kind = "Ok"
            /\ ( /\ \A i \in 1..n : Handled(t[i]) \/ t[i] = NoStartCode
                 /\ \E i, j \in 1..n : i < j /\ IsEofRecord(t[i]) /\ IsDataRecord(t[j]) )
               => Failed(codec.out, "EndOfFileInMiddleOfFile")

\* the records from_records has a case for
Accepted(rec) ==
    rec.type \in {"Data", "ExtendedSegmentAddress", "ExtendedLinearAddress",
                  "StartSegmentAddress", "EndOfFile"}

\* C24: HEX parsing of a finite sequence of accepted records (lines that
\* are such records or have no start code; a vector of such records, the
\* empty one included) ends with an image or an error value, never with
\* an abort: also when the text ends right after its only EOF record, and
\* when there is no EOF record.
C24_ParsingReturns ==
    /\ (NewCalled /\ \A i \in 1..Len(codec.arg) :
                         Handled(codec.arg[i]) \/ codec.arg[i] = NoStartCode)
           => codec.out.kind \in {"Ok", "Err"}
    /\ (codec.fn = "FirmwareImage::from_records" /\ Called
            /\ \A i \in 1..Len(codec.arg) : Accepted(codec.arg[i]))
           => codec.out.kind \in {"Ok", "Err"}

DeserializeCalled == codec.fn = "FirmwareImage::deserialize"

\* C15: deserialize on the bytes that serialize gave for an image succeeds
\* and returns the same segments in the same order, each with equal start,
\* data and crc.
C15_BinaryRoundTrip ==
    DeserializeCalled =>
        /\ codec.out.kind = "Ok"
        /\ Len(codec.out.val) = Len(codec.arg.image)
        /\ \A i \in 1..Len(codec.arg.image) :
               /\ codec.out.val[i].start = codec.arg.image[i].start
               /\ codec.out.val[i].data = codec.arg.image[i].data
               /\ codec.out.val[i].crc = codec.arg.image[i].crc

\* two segments, the largest start, a crc of all ones and an empty segment
C15_Witness ==
    /\ DeserializeCalled
    /\ codec.arg.image = << Segment(2147483647, <<255, 0, 7>>, <<255, 255, 255, 255>>),
                            Segment(0, <<>>, <<1, 2, 3, 4>>) >>
    /\ Len(codec.arg.encoded) = 8 + 23 + 20
    /\ codec.out = Ok(codec.arg.image)

AssertCalled == codec.fn = "Cc131x::assert_if_invalid" /\ Called
\* the segments that contain the four bytes at the register address
HoldsConfigWord(segment) ==
    /\ segment.start <= 131000
    /\ 131000 + 4 <= segment.start + Len(segment.data)
\* the word of such a segment at the index of the register address
ConfigWord(segment) ==
    SubSeq(segment.data, 131000 - segment.start + 1, 131000 - segment.start + 4)

\* C27: assert_if_invalid aborts iff some segment that contains the four
\* bytes at the register address 0x1FFB8 has another word than C5 07 FE C5
\* at the index (0x1FFB8 - start) of its data; it returns for an image in
\* which no segment contains those four bytes.
C27_ConfigWordChecked ==
    AssertCalled =>
        LET image == codec.arg
            holding == {i \in 1..Len(image) : HoldsConfigWord(image[i])}
        IN  /\ codec.out.kind = "Panic" <=>
                   \E i \in holding : ConfigWord(image[i]) # <<197, 7, 254, 197>>
            /\ holding = {} => codec.out = Ok("unit")

====
